---- MODULE Spec2Model ----
(***************************************************************************)
(* Voxelize: the HTML post-processing pipeline of utils/html.ts            *)
(* (extractHtmlFromText, hideBodyText, zoomCamera, injectGameMode) and the *)
(* bootstrap of the script that injectGameMode splices into a scene.       *)
(*                                                                         *)
(* Documents are TLA+ strings, handled character by character with Len,    *)
(* SubSeq and \o, so that matching, case folding, trimming and number      *)
(* formatting are computed the way the JavaScript computes them.           *)
(***************************************************************************)
EXTENDS Bags, FiniteSets, Integers, Sequences, TLC

\* the document artifact and the stages applied to it
VARIABLES input, doc, prev, ops, zf

\* the injected script at run time, inside one scene document
VARIABLES bindings, locals, pollI, pc, listener, avatar, renderPatched,
          warned, seenDefined

pipeVars == <<input, doc, prev, ops, zf>>

bootVars == <<bindings, locals, pollI, pc, listener, avatar, renderPatched,
              warned, seenDefined>>

\* the export handler of the injected script: the messages the window has
\* received, the export attempts they started, the files offered for download
VARIABLES received, attempts, downloads

exportVars == <<received, attempts, downloads>>

\* the character controller of the injected script: the avatar, the flags
\* of the input object (keysDown), the shadow, and what the last call of
\* renderer.render did; keysHeld are the keys the user holds down
VARIABLES playerHeight, playerY, playerXZ, velocityY, keysDown, shadow,
          lastFrame, keysHeld

frameVars == <<playerHeight, playerY, playerXZ, velocityY, keysDown, shadow,
               lastFrame, keysHeld>>

\* the state of the App component and the asynchronous work it has started
\* (pending)
VARIABLES status, errorMsg, prompt, imageData, voxelCode, userContent,
          selectedTile, showGenerator, isViewerVisible, viewMode, pending

\* the sound service of the host page: the mute switch (isMuted of App and of
\* the service), whether processingNode holds an oscillator, the hum
\* oscillators told to stop whose stop time has not come, and the modulation
\* oscillators started
VARIABLES isMuted, processingNode, stopping, modulators

soundVars == <<isMuted, processingNode, stopping, modulators>>

hostVars == <<status, errorMsg, prompt, imageData, voxelCode, userContent,
              selectedTile, showGenerator, isViewerVisible, viewMode,
              pending, soundVars>>

vars == <<pipeVars, bootVars, exportVars, frameVars, hostVars>>

(***************************************************************************)
(* Bounds                                                                  *)
(***************************************************************************)
\* number of tokens an input text is assembled from
MaxToks == 3

\* number of tokens a document handed to the patching stages is assembled from
MaxPatchToks == 2

\* number of statements a script handed to zoomCamera is assembled from
MaxCalls == 2

\* number of times the patching stages are applied to one document
MaxApply == 2

\* number of messages the window of a scene receives
MaxMsgs == 2

\* number of fragments a malformed text is assembled from
MaxStageToks == 2

\* number of asynchronous operations the host page has outstanding
MaxPending == 2

\* startProcessing starts at most this many hums
MaxHums == 4

(***************************************************************************)
(* String primitives of the JavaScript runtime                             *)
(***************************************************************************)
Min(S) == CHOOSE x \in S : \A y \in S : x <= y

Max(S) == CHOOSE x \in S : \A y \in S : x >= y

Char(s, i) == SubSeq(s, i, i)

\* String.prototype.toLowerCase / the canonicalisation of the regexp i flag,
\* on one character
ToLowerChar(c) ==
  CASE c = "A" -> "a" [] c = "B" -> "b" [] c = "C" -> "c" [] c = "D" -> "d"
    [] c = "E" -> "e" [] c = "F" -> "f" [] c = "G" -> "g" [] c = "H" -> "h"
    [] c = "I" -> "i" [] c = "J" -> "j" [] c = "K" -> "k" [] c = "L" -> "l"
    [] c = "M" -> "m" [] c = "N" -> "n" [] c = "O" -> "o" [] c = "P" -> "p"
    [] c = "Q" -> "q" [] c = "R" -> "r" [] c = "S" -> "s" [] c = "T" -> "t"
    [] c = "U" -> "u" [] c = "V" -> "v" [] c = "W" -> "w" [] c = "X" -> "x"
    [] c = "Y" -> "y" [] c = "Z" -> "z" [] OTHER -> c

\* the characters matched by \s and removed by String.prototype.trim
IsSpace(c) == c \in {" ", "\n", "\t", "\r"}

\* the literal pat matches s at position i (1-based); ci is the i flag
MatchesAt(s, i, pat, ci) ==
  /\ i >= 1
  /\ i + Len(pat) - 1 <= Len(s)
  /\ \A k \in 1..Len(pat) :
       IF ci THEN ToLowerChar(Char(s, i + k - 1)) = ToLowerChar(Char(pat, k))
             ELSE Char(s, i + k - 1) = Char(pat, k)

\* position of the first occurrence of pat in s at or after from, 0 if none
IndexOf(s, pat, from, ci) ==
  LET hits == {i \in from..Len(s) : MatchesAt(s, i, pat, ci)}
  IN  IF hits = {} THEN 0 ELSE Min(hits)

\* position of the last occurrence of pat in s, 0 if none
LastIndexOf(s, pat, ci) ==
  LET hits == {i \in 1..Len(s) : MatchesAt(s, i, pat, ci)}
  IN  IF hits = {} THEN 0 ELSE Max(hits)

\* a trim that strips leading spaces only
Trim_leadingOnly(s) ==
  LET keep == {i \in 1..Len(s) : ~IsSpace(Char(s, i))}
  IN  IF keep = {} THEN "" ELSE SubSeq(s, Min(keep), Len(s))

\* String.prototype.trim
Trim(s) ==
  LET keep == {i \in 1..Len(s) : ~IsSpace(Char(s, i))}
  IN  IF keep = {} THEN "" ELSE SubSeq(s, Min(keep), Max(keep))

\* first position at or after a that does not hold a space (Len(s)+1 if none):
\* where a greedy \s* stops
SkipSpaces(s, a) ==
  IF a > Len(s) THEN a
  ELSE Min({p \in a..(Len(s) + 1) : p = Len(s) + 1 \/ ~IsSpace(Char(s, p))})

\* the grave accent U+0060, which a TLA+ string literal cannot hold: "~" stands
\* for it in every document of this module
Backtick == "~"

\* the markdown fence, three grave accents
Fence == Backtick \o Backtick \o Backtick

RECURSIVE Concat(_)
Concat(ts) == IF ts = <<>> THEN "" ELSE Head(ts) \o Concat(Tail(ts))

(***************************************************************************)
(* extractHtmlFromText                                                     *)
(***************************************************************************)
\* /(<!DOCTYPE html>|<html)[\s\S]*?<\/html>/i tried at position i: the length
\* of the opening alternative that leads to a match, 0 if none does
HtmlOpenLenAt(s, i) ==
  IF MatchesAt(s, i, "<!DOCTYPE html>", TRUE)
       /\ IndexOf(s, "</html>", i + 15, TRUE) > 0 THEN 15
  ELSE IF MatchesAt(s, i, "<html", TRUE)
       /\ IndexOf(s, "</html>", i + 5, TRUE) > 0 THEN 5
  ELSE 0

\* the match with a greedy [\s\S]*, which runs to the last closing tag
htmlMatch_greedy(s) ==
  LET starts == {i \in 1..Len(s) : HtmlOpenLenAt(s, i) > 0}
  IN  IF starts = {} THEN <<>>
      ELSE <<Min(starts), LastIndexOf(s, "</html>", TRUE) + 6>>

\* text.match(/(<!DOCTYPE html>|<html)[\s\S]*?<\/html>/i): <<first, last>>
\* positions of htmlMatch[0], <<>> for null
htmlMatch(s) ==
  LET starts == {i \in 1..Len(s) : HtmlOpenLenAt(s, i) > 0}
  IN  IF starts = {} THEN <<>>
      ELSE LET i == Min(starts)
               j == IndexOf(s, "</html>", i + HtmlOpenLenAt(s, i), TRUE)
           IN  <<i, j + 6>>

\* the match without the optional (?:html) after the opening fence
codeBlockMatch_noTag(s) ==
  LET starts == {i \in 1..Len(s) : /\ MatchesAt(s, i, Fence, FALSE)
                                   /\ IndexOf(s, Fence, i + 3, FALSE) > 0}
  IN  IF starts = {} THEN <<>>
      ELSE LET i == Min(starts)
               b == SkipSpaces(s, i + 3)
               j == IndexOf(s, Fence, b, FALSE)
           IN  <<b, j - 1>>

\* text.match(/[fence](?:html)?\s*([\s\S]*?)[fence]/), [fence] being three
\* grave accents: <<first, last>> positions of codeBlockMatch[1] (last =
\* first - 1 for an empty group), <<>> for null
codeBlockMatch(s) ==
  LET starts == {i \in 1..Len(s) : /\ MatchesAt(s, i, Fence, FALSE)
                                   /\ IndexOf(s, Fence, i + 3, FALSE) > 0}
  IN  IF starts = {} THEN <<>>
      ELSE LET i == Min(starts)
               a == IF MatchesAt(s, i + 3, "html", FALSE) THEN i + 7 ELSE i + 3
               b == SkipSpaces(s, a)
               j == IndexOf(s, Fence, b, FALSE)
           IN  <<b, j - 1>>

\* the outcome that stands for a thrown TypeError (reading a property of
\* null), where a stage returns no string at all
TypeError == "TypeError: Cannot read properties of null (reading '0')"

\* an extractor that reads htmlMatch[0] without the test of line 16
extractHtmlFromText_unguarded(text) ==
  IF text = "" THEN ""
  ELSE IF htmlMatch(text) # <<>>
       THEN SubSeq(text, htmlMatch(text)[1], htmlMatch(text)[2])
  ELSE TypeError

extractHtmlFromText(text) ==
  IF text = "" THEN ""
  ELSE IF htmlMatch(text) # <<>>
       THEN SubSeq(text, htmlMatch(text)[1], htmlMatch(text)[2])
  ELSE IF codeBlockMatch(text) # <<>>
       THEN Trim(SubSeq(text, codeBlockMatch(text)[1], codeBlockMatch(text)[2]))
  ELSE Trim(text)

(***************************************************************************)
(* hideBodyText                                                            *)
(***************************************************************************)
\* s with the n characters at position i replaced by r: String.prototype
\* .replace for one match and a replacement text without $ patterns
ReplaceAt(s, i, n, r) == SubSeq(s, 1, i - 1) \o r \o SubSeq(s, i + n, Len(s))

cssToInject ==
  "\n    <style>\n"
    \o "      #info, #loading, #ui, #instructions, .label, .overlay, #description {\n"
    \o "        display: none !important;\n"
    \o "        opacity: 0 !important;\n"
    \o "        pointer-events: none !important;\n"
    \o "        visibility: hidden !important;\n"
    \o "      }\n"
    \o "      body {\n"
    \o "        user-select: none !important;\n"
    \o "      }\n"
    \o "    </style>\n  "

\* hideBodyText looking for </body> before </head>
hideBodyText_bodyFirst(html) ==
  LET head == IndexOf(html, "</head>", 1, TRUE)
      body == IndexOf(html, "</body>", 1, TRUE)
  IN  IF body > 0 THEN ReplaceAt(html, body, 7, cssToInject \o "</body>")
      ELSE IF head > 0 THEN ReplaceAt(html, head, 7, cssToInject \o "</head>")
      ELSE html \o cssToInject

\* a hideBodyText that leaves a document alone once it holds the block
hideBodyText_once(html) ==
  LET head == IndexOf(html, "</head>", 1, TRUE)
      body == IndexOf(html, "</body>", 1, TRUE)
  IN  IF IndexOf(html, cssToInject, 1, FALSE) > 0 THEN html
      ELSE IF head > 0 THEN ReplaceAt(html, head, 7, cssToInject \o "</head>")
      ELSE IF body > 0 THEN ReplaceAt(html, body, 7, cssToInject \o "</body>")
      ELSE html \o cssToInject

\* html.toLowerCase().includes(tag) and html.replace(/tag/i, ...) find the
\* same first occurrence of the tag, whatever its letter case
hideBodyText(html) ==
  LET head == IndexOf(html, "</head>", 1, TRUE)
      body == IndexOf(html, "</body>", 1, TRUE)
  IN  IF head > 0 THEN ReplaceAt(html, head, 7, cssToInject \o "</head>")
      ELSE IF body > 0 THEN ReplaceAt(html, body, 7, cssToInject \o "</body>")
      ELSE html \o cssToInject

(***************************************************************************)
(* zoomCamera                                                              *)
(***************************************************************************)
Digits == {"0", "1", "2", "3", "4", "5", "6", "7", "8", "9"}

DigitVal(c) ==
  CASE c = "0" -> 0 [] c = "1" -> 1 [] c = "2" -> 2 [] c = "3" -> 3
    [] c = "4" -> 4 [] c = "5" -> 5 [] c = "6" -> 6 [] c = "7" -> 7
    [] c = "8" -> 8 [] c = "9" -> 9

DigitChar(d) ==
  CASE d = 0 -> "0" [] d = 1 -> "1" [] d = 2 -> "2" [] d = 3 -> "3"
    [] d = 4 -> "4" [] d = 5 -> "5" [] d = 6 -> "6" [] d = 7 -> "7"
    [] d = 8 -> "8" [] d = 9 -> "9"

RECURSIVE Pow10(_)
Pow10(e) == IF e = 0 THEN 1 ELSE 10 * Pow10(e - 1)

IsDigits(t) == \A k \in 1..Len(t) : Char(t, k) \in Digits

\* a literal that also accepts a trailing decimal point, -?\d+\.?\d*
IsNumber_trailingPoint(t) ==
  LET u == IF t # "" /\ Char(t, 1) = "-" THEN Tail(t) ELSE t
  IN  /\ u # ""
      /\ Char(u, 1) \in Digits
      /\ \/ IsDigits(u)
         \/ \E d \in 1..Len(u) : /\ Char(u, d) = "."
                                 /\ IsDigits(SubSeq(u, 1, d - 1))
                                 /\ IsDigits(SubSeq(u, d + 1, Len(u)))

\* t matches -?\d*\.?\d+ as a whole
IsNumber(t) ==
  LET u == IF t # "" /\ Char(t, 1) = "-" THEN Tail(t) ELSE t
  IN  /\ u # ""
      /\ \/ IsDigits(u)
         \/ \E d \in 1..(Len(u) - 1) : /\ Char(u, d) = "."
                                       /\ IsDigits(SubSeq(u, 1, d - 1))
                                       /\ IsDigits(SubSeq(u, d + 1, Len(u)))

\* end (exclusive) of the run of sign, point and digit characters at p: a
\* literal cannot stop earlier, for what follows it must be a space, a comma
\* or the closing parenthesis
NumberEnd(s, p) ==
  IF p > Len(s) THEN p
  ELSE Min({q \in p..(Len(s) + 1) :
              q = Len(s) + 1 \/ Char(s, q) \notin (Digits \cup {"-", "."})})

\* the regexp of zoomCamera tried at position i: <<last position of the
\* match, x, y, z>> with the three captured literals, <<>> if it fails
cameraCallAt(s, i) ==
  LET a1 == SkipSpaces(s, i + 20)
      e1 == NumberEnd(s, a1)
      c1 == SkipSpaces(s, e1)
      a2 == SkipSpaces(s, c1 + 1)
      e2 == NumberEnd(s, a2)
      c2 == SkipSpaces(s, e2)
      a3 == SkipSpaces(s, c2 + 1)
      e3 == NumberEnd(s, a3)
      c3 == SkipSpaces(s, e3)
  IN  IF /\ MatchesAt(s, i, "camera.position.set(", FALSE)
         /\ IsNumber(SubSeq(s, a1, e1 - 1))
         /\ c1 <= Len(s) /\ Char(s, c1) = ","
         /\ IsNumber(SubSeq(s, a2, e2 - 1))
         /\ c2 <= Len(s) /\ Char(s, c2) = ","
         /\ IsNumber(SubSeq(s, a3, e3 - 1))
         /\ c3 <= Len(s) /\ Char(s, c3) = ")"
      THEN <<c3, SubSeq(s, a1, e1 - 1), SubSeq(s, a2, e2 - 1),
             SubSeq(s, a3, e3 - 1)>>
      ELSE <<>>

\* value of a digit string (0 for the empty one)
RECURSIVE DigitsVal(_)
DigitsVal(t) ==
  IF t = "" THEN 0
  ELSE 10 * DigitsVal(SubSeq(t, 1, Len(t) - 1)) + DigitVal(Char(t, Len(t)))

\* parseFloat on a captured literal. A number is <<m, e>>, worth m / 10^e.
parseFloat(t) ==
  LET neg == Char(t, 1) = "-"
      u == IF neg THEN Tail(t) ELSE t
      d == IndexOf(u, ".", 1, FALSE)
      m == IF d = 0 THEN DigitsVal(u)
           ELSE DigitsVal(SubSeq(u, 1, d - 1) \o SubSeq(u, d + 1, Len(u)))
  IN  <<IF neg THEN 0 - m ELSE m, IF d = 0 THEN 0 ELSE Len(u) - d>>

\* the product of two numbers. The literals and factors of this module are
\* chosen so that the double product prints as this exact decimal product
\* (2 * 0.8 is 1.6, where 3 * 0.8 would print 2.4000000000000004).
Times(a, b) == <<a[1] * b[1], a[2] + b[2]>>

RECURSIVE NatToString(_)
NatToString(n) ==
  IF n < 10 THEN DigitChar(n)
  ELSE NatToString(n \div 10) \o DigitChar(n % 10)

RECURSIVE ZeroPad(_, _)
ZeroPad(t, w) == IF Len(t) >= w THEN t ELSE ZeroPad("0" \o t, w)

\* drop the trailing zeros of the fraction
RECURSIVE Normal(_, _)
Normal(m, e) ==
  IF e > 0 /\ m % 10 = 0 THEN Normal(m \div 10, e - 1) ELSE <<m, e>>

\* a conversion that keeps the trailing zeros of the fraction
NumberToString_keepZeros(x) ==
  LET a == IF x[1] < 0 THEN 0 - x[1] ELSE x[1]
  IN  (IF x[1] < 0 THEN "-" ELSE "")
        \o NatToString(a \div Pow10(x[2]))
        \o (IF x[2] = 0 THEN ""
            ELSE "." \o ZeroPad(NatToString(a % Pow10(x[2])), x[2]))

\* Number::toString, as the template literal applies it, for the magnitudes
\* printed in decimal notation (from 1e-6 up to 1e21); zero prints as 0
\* whatever its sign
NumberToString(x) ==
  LET a == IF x[1] < 0 THEN 0 - x[1] ELSE x[1]
      n == Normal(a, x[2])
  IN  (IF x[1] < 0 THEN "-" ELSE "")
        \o NatToString(n[1] \div Pow10(n[2]))
        \o (IF n[2] = 0 THEN ""
            ELSE "." \o ZeroPad(NatToString(n[1] % Pow10(n[2])), n[2]))

\* a replacer that joins the numbers with bare commas
ZoomReplacement_noSpace(m, zoomFactor) ==
  "camera.position.set("
    \o NumberToString(Times(parseFloat(m[2]), zoomFactor)) \o ","
    \o NumberToString(Times(parseFloat(m[3]), zoomFactor)) \o ","
    \o NumberToString(Times(parseFloat(m[4]), zoomFactor)) \o ")"

\* the replacer callback of zoomCamera, on the match m
ZoomReplacement(m, zoomFactor) ==
  "camera.position.set("
    \o NumberToString(Times(parseFloat(m[2]), zoomFactor)) \o ", "
    \o NumberToString(Times(parseFloat(m[3]), zoomFactor)) \o ", "
    \o NumberToString(Times(parseFloat(m[4]), zoomFactor)) \o ")"

\* html.replace(regex, replacer) with the g flag, from position from on:
\* every match is replaced, the search going on after the end of each match
RECURSIVE ReplaceCalls(_, _, _)
ReplaceCalls(s, from, zoomFactor) ==
  LET starts == {i \in from..Len(s) : cameraCallAt(s, i) # <<>>}
  IN  IF starts = {} THEN SubSeq(s, from, Len(s))
      ELSE LET i == Min(starts)
               m == cameraCallAt(s, i)
           IN  SubSeq(s, from, i - 1) \o ZoomReplacement(m, zoomFactor)
                 \o ReplaceCalls(s, m[1] + 1, zoomFactor)

\* a replace without the g flag: the first match only
zoomCamera_firstOnly(html, zoomFactor) ==
  LET starts == {i \in 1..Len(html) : cameraCallAt(html, i) # <<>>}
  IN  IF starts = {} THEN html
      ELSE LET i == Min(starts)
               m == cameraCallAt(html, i)
           IN  SubSeq(html, 1, i - 1) \o ZoomReplacement(m, zoomFactor)
                 \o SubSeq(html, m[1] + 1, Len(html))

zoomCamera(html, zoomFactor) == ReplaceCalls(html, 1, zoomFactor)

\* the default zoomFactor, 0.8
DefaultZoom == <<8, 1>>

\* the factors a caller passes: the default and the 0.5 of the example
ZoomFactors == {DefaultZoom, <<5, 1>>}

(***************************************************************************)
(* injectGameMode                                                          *)
(***************************************************************************)
\* the template script, from its first line to its last; the body of
\* startInjectedLogic is modelled by the Boot actions below
gameScript ==
  "\n    // --- INJECTED GAME & EXPORT LOGIC ---\n"
    \o "    (function() {\n"
    \o "        requestAnimationFrame(() => {\n"
    \o "            startInjectedLogic().catch(console.error);\n"
    \o "        });\n"
    \o "    })();\n    "

\* a pattern that takes the first closing tag instead of the last
lastScriptTag_first(html) == IndexOf(html, "</script>", 1, TRUE)

\* html.match(/<\/script>(?![\s\S]*<\/script>)/i): the position of the match,
\* 0 for null
lastScriptTag(html) ==
  LET hits == {i \in 1..Len(html) :
                 /\ MatchesAt(html, i, "</script>", TRUE)
                 /\ IndexOf(html, "</script>", i + 9, TRUE) = 0}
  IN  IF hits = {} THEN 0 ELSE Min(hits)

injectGameMode(html) ==
  LET match == lastScriptTag(html)
  IN  IF match = 0
        THEN html \o "<script type=\"module\">" \o gameScript \o "</script>"
        ELSE ReplaceAt(html, match, 9, "\n" \o gameScript \o "\n</script>")

(***************************************************************************)
(* The injected script: startInjectedLogic                                 *)
(***************************************************************************)
\* the free variables the script reads, in the order poll reads them
Names == <<"THREE", "scene", "camera", "renderer", "controls">>

NameSet == {Names[k] : k \in 1..Len(Names)}

Required == {"THREE", "scene", "renderer"}

\* what a free variable of the enclosing scope can be when it is read:
\* declared by let/const/class/import and not initialised yet ("tdz": typeof
\* throws a ReferenceError), undeclared or holding undefined or null
\* ("undefined": the local becomes null), or holding an object
BindingStates == {"tdz", "undefined", "object"}

\* for (let i = 0; i < 100; i++)
PollLimit == 100

\* the locals after one pass over lines 85-89: the reads stop at the first
\* variable whose typeof throws, the locals after it keep their values
ReadBindings ==
  LET thrown == {k \in 1..Len(Names) : bindings[Names[k]] = "tdz"}
      stop == IF thrown = {} THEN Len(Names) + 1 ELSE Min(thrown)
  IN  [n \in NameSet |->
         LET k == CHOOSE j \in 1..Len(Names) : Names[j] = n
         IN  IF k < stop
               THEN (IF bindings[n] = "object" THEN "object" ELSE "null")
               ELSE locals[n]]

\* a test that is content with one of the three variables
PassFound_anyOne ==
  /\ \A n \in NameSet : bindings[n] # "tdz"
  /\ \E n \in Required : ReadBindings[n] = "object"

\* the pass reached line 91 and its test held
PassFound ==
  /\ \A n \in NameSet : bindings[n] # "tdz"
  /\ \A n \in Required : ReadBindings[n] = "object"

(***************************************************************************)
(* The injected script: the character controller                           *)
(***************************************************************************)
\* lengths are counted in twentieths of a scene unit and times in twentieths
\* of a second, so that 0.05, 0.1 and half the avatar height are whole
\* numbers; velocities are in scene units per second
Scale == 20

\* camera_obj.position.distanceTo(origin) when the avatar is set up
CameraDistances == {10, 50}

\* Math.max(1, dist / 25)
PlayerHeightFor(dist) == IF dist \div 25 >= 1 THEN dist \div 25 ELSE 1

\* lines 153-155 for an avatar of height h
moveSpeed(h) == 15 * h

jumpForce(h) == 15 * h

gravity(h) == 40 * h

\* clock.getDelta(), in twentieths of a second
Deltas == {0, 2, 10}

\* let groundY = -Infinity: below every height the avatar can have
NoGround == 0 - 1000000

\* what the ground probe of lines 217-226 finds under the avatar: nothing, a
\* floor at height 0, a floor at height -120
GroundProbes == {NoGround, 0, 0 - 120 * Scale}

\* the safety threshold of line 246 and the shadow cut-off of line 239
FallLimit == 0 - 100 * Scale

\* the arguments the scene passes to renderer.render
RenderArgs == {<<"scene", "camera">>, <<"scene", "minimapCamera">>}

\* e.code of the keys a user presses
KeyCodes == {"KeyW", "Space"}

\* every key the listeners know, and one they do not
AllKeyCodes ==
  {"KeyW", "ArrowUp", "KeyS", "ArrowDown", "KeyA", "ArrowLeft", "KeyD",
   "ArrowRight", "Space", "KeyQ"}

\* lines 172-176 and 180-184: the fields of input a key code stands for
FlagsOf(code) ==
  (IF code \in {"KeyW", "ArrowUp"} THEN {"f"} ELSE {})
    \cup (IF code \in {"KeyS", "ArrowDown"} THEN {"b"} ELSE {})
    \cup (IF code \in {"KeyA", "ArrowLeft"} THEN {"l"} ELSE {})
    \cup (IF code \in {"KeyD", "ArrowRight"} THEN {"r"} ELSE {})
    \cup (IF code = "Space" THEN {"space"} ELSE {})

\* a step that gives the jump impulse whenever the feet are near the ground,
\* rising or not
Simulate_jumpWhileRising(y, vy, keys, h, delta, ground) ==
  LET dt == Min({delta, 2})
      vy1 == vy - (gravity(h) * dt) \div Scale
      feetPos == y - (h * Scale) \div 2
      near == feetPos <= ground + 2
      yLanded == IF near /\ vy1 <= 0 THEN ground + (h * Scale) \div 2 ELSE y
      vyLanded == IF near /\ "space" \in keys THEN jumpForce(h)
                  ELSE IF near /\ vy1 <= 0 THEN 0 ELSE vy1
      yMoved == yLanded + vyLanded * dt
  IN  [dt |-> dt, vyGravity |-> vy1, feetPos |-> feetPos, ground |-> ground,
       space |-> "space" \in keys, yBefore |-> y, yLanded |-> yLanded,
       vyLanded |-> vyLanded, yMoved |-> yMoved,
       respawned |-> yMoved < FallLimit,
       y |-> IF yMoved < FallLimit THEN 10 * h * Scale ELSE yMoved,
       vy |-> IF yMoved < FallLimit THEN 0 ELSE vyLanded]

\* a step that tests the safety threshold before it moves the avatar
Simulate_respawnBeforeMove(y, vy, keys, h, delta, ground) ==
  LET dt == Min({delta, 2})
      vy1 == vy - (gravity(h) * dt) \div Scale
      feetPos == y - (h * Scale) \div 2
      landing == feetPos <= ground + 2 /\ vy1 <= 0
      yLanded == IF landing THEN ground + (h * Scale) \div 2 ELSE y
      vyLanded == IF landing
                    THEN (IF "space" \in keys THEN jumpForce(h) ELSE 0)
                    ELSE vy1
      yMoved == yLanded + vyLanded * dt
  IN  [dt |-> dt, vyGravity |-> vy1, feetPos |-> feetPos, ground |-> ground,
       space |-> "space" \in keys, yBefore |-> y, yLanded |-> yLanded,
       vyLanded |-> vyLanded, yMoved |-> yMoved,
       respawned |-> yLanded < FallLimit,
       y |-> IF yLanded < FallLimit THEN 10 * h * Scale ELSE yMoved,
       vy |-> IF yLanded < FallLimit THEN 0 ELSE vyLanded]

\* the vertical part of the step of lines 195-249 for an avatar at height y
\* with velocity vy and height h, the keys held, the clock delta and the
\* ground found: the values the step goes through and the ones it leaves
Simulate(y, vy, keys, h, delta, ground) ==
  LET dt == Min({delta, 2})
      vy1 == vy - (gravity(h) * dt) \div Scale
      feetPos == y - (h * Scale) \div 2
      landing == feetPos <= ground + 2 /\ vy1 <= 0
      yLanded == IF landing THEN ground + (h * Scale) \div 2 ELSE y
      vyLanded == IF landing
                    THEN (IF "space" \in keys THEN jumpForce(h) ELSE 0)
                    ELSE vy1
      yMoved == yLanded + vyLanded * dt
  IN  [dt |-> dt, vyGravity |-> vy1, feetPos |-> feetPos, ground |-> ground,
       space |-> "space" \in keys, yBefore |-> y, yLanded |-> yLanded,
       vyLanded |-> vyLanded, yMoved |-> yMoved,
       respawned |-> yMoved < FallLimit,
       y |-> IF yMoved < FallLimit THEN 10 * h * Scale ELSE yMoved,
       vy |-> IF yMoved < FallLimit THEN 0 ELSE vyLanded]

\* lines 206-215: moveDir is not the null vector and the step moves the
\* avatar sideways
Moves(keys, delta) ==
  /\ delta > 0
  /\ \/ ("f" \in keys) # ("b" \in keys)
     \/ ("l" \in keys) # ("r" \in keys)

\* a wrapper that draws before it simulates
Delegated_drawFirst(s, c, y, xz) ==
  <<[scene |-> s, camera |-> c, y |-> playerY, xz |-> playerXZ]>>

\* line 259: the calls of originalRender one call of the override makes, with
\* their arguments and the place of the avatar they draw
Delegated(s, c, y, xz) == <<[scene |-> s, camera |-> c, y |-> y, xz |-> xz]>>

(***************************************************************************)
(* Inputs                                                                  *)
(***************************************************************************)
\* every concatenation of at most max tokens of T
TextsOver(T, max) ==
  {Concat(ts) : ts \in UNION {[1..n -> T] : n \in 0..max}}

ExtractTokens ==
  {"<html>", "x<HTML lang>", "<!DOCTYPE html>", "</html>", "</HTML>",
   Fence, Fence \o "html \n", "html", " \n", "x "}

\* the chat reply of the end-to-end scenario: prose, then a fenced document
ChatReply ==
  "Sure! Here's your scene:\n" \o Fence \o "html\n"
    \o "<html><head></head><body><script>camera.position.set(2,2,2);</script></body></html>"
    \o "\n" \o Fence

\* a fence that holds prose around the document
FencedProse ==
  Fence \o "html\nHere it is: <html><body></body></HTML> enjoy\n" \o Fence

ExtractInputs == TextsOver(ExtractTokens, MaxToks) \cup {ChatReply, FencedProse}

\* a call with the arguments t, the separator sep and the padding pad
CallText(t, sep, pad) ==
  "camera.position.set(" \o pad \o t[1] \o sep \o t[2] \o sep \o t[3]
    \o pad \o ")"

\* calls that match, in three layouts; their literals are such that the
\* products with the factors are exact
MatchingCalls ==
  {CallText(<<"10", "-5", "2.5">>, ", ", ""),
   CallText(<<"2", "2", "2">>, ",", ""),
   CallText(<<".50", "-0", "004">>, " ,\n", " ")}

\* calls that are not camera.position.set with three literals, and one call
\* on an identifier that ends in camera
OtherCalls ==
  {"camera.position.set(1,2)", "cam.position.set(1,2,3)",
   "camera.position.set(x,2,2)", "camera.position.set(5.,2,2)",
   "camera.position.set(2,2,2,2)", "camera.position.add(2,2,2)",
   "Camera.position.set(2,2,2)", "mycamera.position.set(2,2,2)"}

Statements == {c \o ";" : c \in MatchingCalls \cup OtherCalls}

ZoomInputs ==
  TextsOver(Statements, MaxCalls)
    \cup {"camera.position.set(10, -5, 2.5)", "camera.position.set(1,2)",
          "cam.position.set(1,2,3)"}

\* replies of the model or example files: a document, bare or fenced, with
\* or without a head, with one camera call in its script
PipelineInputs ==
  {w[1] \o d[1] \o h \o "<body><script>" \o c \o ";</script></body>"
        \o d[2] \o w[2] :
     w \in {<<"", "">>,
            <<"Sure! Here's your scene:\n" \o Fence \o "html\n", "\n" \o Fence>>,
            <<Fence \o "\n", Fence>>},
     d \in {<<"<html>", "</html>">>, <<"<!DOCTYPE html><HTML>", "</HTML>">>,
            <<"", "">>},
     h \in {"<head></head>", ""},
     c \in {"camera.position.set(2,2,2)", "camera.position.set(10, -5, 2.5)",
            "camera.position.set(1,2)"}}

PatchTokens ==
  {"</head>", "</Body></HEAD>", "</Body>", "a();</script>",
   "<script>b();</SCRIPT>", "<script>b();"}

PatchInputs == TextsOver(PatchTokens, MaxPatchToks) \cup {ChatReply}

(***************************************************************************)
(* State machine: a document artifact and the stages applied to it         *)
(***************************************************************************)
\* no message has arrived, no frame was rendered, the host page is idle
NothingRuns ==
  /\ received = <<>>
  /\ attempts = <<>>
  /\ downloads = <<>>
  /\ playerHeight = 0
  /\ playerY = 0
  /\ playerXZ = "origin"
  /\ velocityY = 0
  /\ keysDown = {}
  /\ keysHeld = {}
  /\ shadow = [visible |-> FALSE, y |-> 0]
  /\ lastFrame = <<>>
  /\ status = "idle"
  /\ errorMsg = ""
  /\ prompt = ""
  /\ imageData = <<>>
  /\ voxelCode = <<>>
  /\ userContent = <<>>
  /\ selectedTile = "null"
  /\ showGenerator = FALSE
  /\ isViewerVisible = TRUE
  /\ viewMode = "image"
  /\ pending = EmptyBag
  /\ isMuted = FALSE
  /\ processingNode = FALSE
  /\ stopping = 0
  /\ modulators = 0

InitOn(S) ==
  /\ input \in S
  /\ doc = input
  /\ prev = input
  /\ ops = <<>>
  /\ zf = DefaultZoom
  /\ bindings = [n \in NameSet |-> "undefined"]
  /\ locals = [n \in NameSet |-> "undefined"]
  /\ pollI = 0
  /\ pc = "unloaded"
  /\ listener = FALSE
  /\ avatar = FALSE
  /\ renderPatched = FALSE
  /\ warned = FALSE
  /\ seenDefined = FALSE
  /\ NothingRuns

Extract ==
  /\ doc' = extractHtmlFromText(doc)
  /\ prev' = doc
  /\ ops' = Append(ops, "extract")
  /\ UNCHANGED <<input, zf, bootVars, exportVars, frameVars, hostVars>>

HideBodyText ==
  /\ doc' = hideBodyText(doc)
  /\ prev' = doc
  /\ ops' = Append(ops, "hide")
  /\ UNCHANGED <<input, zf, bootVars, exportVars, frameVars, hostVars>>

InjectGameMode ==
  /\ doc' = injectGameMode(doc)
  /\ prev' = doc
  /\ ops' = Append(ops, "inject")
  /\ UNCHANGED <<input, zf, bootVars, exportVars, frameVars, hostVars>>

ZoomCamera ==
  /\ \E f \in ZoomFactors :
       /\ doc' = zoomCamera(doc, f)
       /\ zf' = f
  /\ prev' = doc
  /\ ops' = Append(ops, "zoom")
  /\ UNCHANGED <<input, bootVars, exportVars, frameVars, hostVars>>

InitExtract == InitOn(ExtractInputs)

NextExtract == ops = <<>> /\ Extract

SpecExtract == InitExtract /\ [][NextExtract]_vars

\* zoomCamera applied once, with either factor
InitZoom == InitOn(ZoomInputs)

NextZoom == ops = <<>> /\ ZoomCamera

SpecZoom == InitZoom /\ [][NextZoom]_vars

\* the two patching stages, applied in any order and any number of times
InitPatch == InitOn(PatchInputs)

NextPatch == Len(ops) < MaxApply /\ (HideBodyText \/ InjectGameMode)

SpecPatch == InitPatch /\ [][NextPatch]_vars

\* any one stage, applied to a text that need not be a document at all
StageTokens ==
  {"<html", "</html>", "<!DOCTYPE html>", Fence, "</head>", "</BODY>",
   "<script>", "</script>", "camera.position.set(2,2,2)",
   "camera.position.set(2,,2)", "camera.position.set(", " \n"}

StageInputs == TextsOver(StageTokens, MaxStageToks)

InitStages == InitOn(StageInputs)

NextStages ==
  ops = <<>> /\ (Extract \/ HideBodyText \/ ZoomCamera \/ InjectGameMode)

SpecStages == InitStages /\ [][NextStages]_vars

\* the full chain, in the order of the stages
Init == InitOn(PipelineInputs)

Next ==
  \/ ops = <<>> /\ Extract
  \/ ops = <<"extract">> /\ HideBodyText
  \/ ops = <<"extract", "hide">> /\ ZoomCamera
  \/ ops = <<"extract", "hide", "zoom">> /\ InjectGameMode

Spec == Init /\ [][Next]_vars

(***************************************************************************)
(* State machine: the injected script in a scene document                  *)
(***************************************************************************)
\* the animation frame callback is about to call startInjectedLogic; the
\* scene script has brought its variables to some state
InitBoot ==
  /\ input = "" /\ doc = "" /\ prev = "" /\ ops = <<>> /\ zf = DefaultZoom
  /\ bindings \in [NameSet -> BindingStates]
  /\ locals = [n \in NameSet |-> "undefined"]
  /\ pollI = 0
  /\ pc = "poll"
  /\ listener = FALSE
  /\ avatar = FALSE
  /\ renderPatched = FALSE
  /\ warned = FALSE
  /\ seenDefined = FALSE
  /\ NothingRuns

\* the scene script, between two steps of the injected script, initialises
\* a variable or assigns to it
HostAssign ==
  /\ pc \in {"poll", "wait"}
  /\ \E n \in NameSet, v \in {"undefined", "object"} :
       /\ bindings[n] # v
       /\ bindings' = [bindings EXCEPT ![n] = v]
  /\ UNCHANGED <<hostVars, exportVars, frameVars, pipeVars, locals, pollI,
                 pc, listener, avatar, renderPatched, warned, seenDefined>>

\* one pass of the loop of poll, lines 83-93, up to its return or its await
PollAttempt ==
  /\ pc = "poll"
  /\ pollI < PollLimit
  /\ locals' = ReadBindings
  /\ pc' = IF PassFound THEN "found" ELSE "wait"
  /\ seenDefined' = (seenDefined
                       \/ \A n \in Required : bindings[n] = "object")
  /\ UNCHANGED <<hostVars, exportVars, frameVars, pipeVars, bindings, pollI,
                 listener, avatar, renderPatched, warned>>

\* the 100 ms timer of line 93 fires: i++
TimerFires ==
  /\ pc = "wait"
  /\ pollI' = pollI + 1
  /\ pc' = "poll"
  /\ UNCHANGED <<hostVars, exportVars, frameVars, pipeVars, bindings, locals,
                 listener, avatar, renderPatched, warned, seenDefined>>

\* the loop ends, poll returns false: lines 95, 99-102
PollFails ==
  /\ pc = "poll"
  /\ pollI >= PollLimit
  /\ warned' = TRUE
  /\ pc' = "aborted"
  /\ UNCHANGED <<hostVars, exportVars, frameVars, pipeVars, bindings, locals,
                 pollI, listener, avatar, renderPatched, seenDefined>>

\* poll returned true: lines 104-260 run to their end, or up to the
\* TypeError of line 150 when camera_obj is null
Setup ==
  /\ pc = "found"
  /\ listener' = TRUE
  /\ IF locals["camera"] = "object"
       THEN /\ avatar' = TRUE /\ renderPatched' = TRUE /\ pc' = "running"
            /\ \E dist \in CameraDistances :
                 /\ playerHeight' = PlayerHeightFor(dist)
                 /\ playerY' = 5 * PlayerHeightFor(dist) * Scale
            /\ playerXZ' = "origin"
            /\ velocityY' = 0
            /\ keysDown' = {}
            /\ keysHeld' = {}
            /\ shadow' = [visible |-> TRUE, y |-> 0]
            /\ lastFrame' = <<>>
       ELSE /\ avatar' = FALSE /\ renderPatched' = FALSE /\ pc' = "failed"
            /\ UNCHANGED frameVars
  /\ UNCHANGED <<hostVars, exportVars, pipeVars, bindings, locals, pollI,
                 warned, seenDefined>>

NextBoot == HostAssign \/ PollAttempt \/ TimerFires \/ PollFails \/ Setup

SpecBoot == InitBoot /\ [][NextBoot]_vars

(***************************************************************************)
(* State machine: the export handler of the injected script                *)
(***************************************************************************)
\* a message payload as the listener sees it in event.data: the type of the
\* value and its text (for an array, the text of its only element)
ExportCommand == <<"string", "EXPORT_GLB">>

Payloads ==
  {ExportCommand, <<"string", "export_glb">>, <<"string", "EXPORT_GLB ">>,
   <<"array", "EXPORT_GLB">>, <<"object", "EXPORT_GLB">>}

\* a comparison with ==, which converts an array to the text of its elements
IsExportCommand_loose(data) ==
  data[1] \in {"string", "array"} /\ data[2] = "EXPORT_GLB"

\* event.data === 'EXPORT_GLB'
IsExportCommand(data) == data[1] = "string" /\ data[2] = "EXPORT_GLB"

\* the two places the exporter module is imported from
PackagePath == "three/addons/exporters/GLTFExporter.js"

CdnUrl ==
  "https://unpkg.com/three@0.160.0/examples/jsm/exporters/GLTFExporter.js"

\* what an import() can come to: a rejection, a module without GLTFExporter,
\* a module whose exporter throws when constructed or called, a module whose
\* exporter takes the scene
ImportOutcomes == {"rejected", "noExporter", "throws", "exporter"}

\* what exporter.parse calls back with: onDone with an ArrayBuffer, onDone
\* with a JSON object, or onError
ParseOutcomes == {"ArrayBuffer", "json", "error"}

\* an attempt right after line 109: the first import() is pending. loads are
\* the specifiers imported so far, results what each import came to, errors
\* the console.error calls of the attempt, file the extension of the download
NewAttempt ==
  [stage |-> "import", loads |-> <<PackagePath>>, results |-> <<>>,
   errors |-> 0, file |-> ""]

\* an exporter that goes to the CDN also when the first module has no
\* GLTFExporter
AfterImport_cdnWhenMissing(a, outcome) ==
  LET r == [a EXCEPT !.results = Append(@, outcome)]
  IN  IF outcome \in {"rejected", "noExporter"} /\ Len(a.loads) = 1
        THEN [r EXCEPT !.loads = Append(@, CdnUrl)]
      ELSE IF outcome = "exporter"
        THEN [r EXCEPT !.stage = "parsing"]
      ELSE [r EXCEPT !.stage = "failed", !.errors = @ + 1]

\* lines 113-125 and 143-145, from the settling of a pending import() to the
\* next await or the end of the handler
AfterImport(a, outcome) ==
  LET r == [a EXCEPT !.results = Append(@, outcome)]
  IN  IF outcome = "rejected" /\ Len(a.loads) = 1
        THEN [r EXCEPT !.loads = Append(@, CdnUrl)]
      ELSE IF outcome = "exporter"
        THEN [r EXCEPT !.stage = "parsing"]
      ELSE [r EXCEPT !.stage = "failed", !.errors = @ + 1]

\* lines 125-142: the callbacks of exporter.parse
AfterParse(a, outcome) ==
  IF outcome = "error"
    THEN [a EXCEPT !.stage = "failed", !.errors = @ + 1]
    ELSE [a EXCEPT !.stage = "done",
                   !.file = IF outcome = "ArrayBuffer" THEN ".glb"
                                                       ELSE ".gltf"]

\* the window receives a message from sender: the listener of lines 107-147,
\* if it is registered, runs up to its first await
Deliver(sender, data) ==
  /\ Len(received) < MaxMsgs
  /\ received' = Append(received,
                        [from |-> sender, data |-> data, heard |-> listener])
  /\ attempts' = IF listener /\ IsExportCommand(data)
                   THEN Append(attempts, NewAttempt)
                   ELSE attempts
  /\ UNCHANGED <<hostVars, frameVars, pipeVars, bootVars, downloads>>

\* the Export GLB button of the host page: postMessage('EXPORT_GLB', '*') to
\* the frame that shows the scene
handleExportGLB == Deliver("host", <<"string", "EXPORT_GLB">>)

\* any other window that holds a reference to the frame posts to it
OtherMessage == \E data \in Payloads : Deliver("other", data)

ImportSettles ==
  \E k \in DOMAIN attempts, outcome \in ImportOutcomes :
    /\ attempts[k].stage = "import"
    /\ attempts' = [attempts EXCEPT ![k] = AfterImport(@, outcome)]
    /\ UNCHANGED <<hostVars, frameVars, pipeVars, bootVars, received,
                   downloads>>

ParseSettles ==
  \E k \in DOMAIN attempts, outcome \in ParseOutcomes :
    /\ attempts[k].stage = "parsing"
    /\ attempts' = [attempts EXCEPT ![k] = AfterParse(@, outcome)]
    /\ downloads' = IF outcome = "error" THEN downloads
                    ELSE Append(downloads, AfterParse(attempts[k], outcome).file)
    /\ UNCHANGED <<hostVars, frameVars, pipeVars, bootVars, received>>

\* scenes for the export handler: the three required variables are there,
\* camera and controls may be; or nothing is
ExportScenes ==
  {[n \in NameSet |-> IF n \in Required \/ n \in opt THEN "object"
                                                    ELSE "undefined"] :
     opt \in SUBSET {"camera", "controls"}}
    \cup {[n \in NameSet |-> "undefined"]}

InitExport ==
  /\ input = "" /\ doc = "" /\ prev = "" /\ ops = <<>> /\ zf = DefaultZoom
  /\ bindings \in ExportScenes
  /\ locals = [n \in NameSet |-> "undefined"]
  /\ pollI = 0
  /\ pc = "poll"
  /\ listener = FALSE
  /\ avatar = FALSE
  /\ renderPatched = FALSE
  /\ warned = FALSE
  /\ seenDefined = FALSE
  /\ NothingRuns

NextExport ==
  \/ PollAttempt
  \/ TimerFires
  \/ PollFails
  \/ Setup
  \/ handleExportGLB
  \/ OtherMessage
  \/ ImportSettles
  \/ ParseSettles

SpecExport == InitExport /\ [][NextExport]_vars

(***************************************************************************)
(* State machine: the character controller of the injected script          *)
(***************************************************************************)
\* lines 170-177: the user presses a key
keydown(code) ==
  /\ pc = "running"
  /\ code \notin keysHeld
  /\ keysHeld' = keysHeld \cup {code}
  /\ keysDown' = keysDown \cup FlagsOf(code)
  /\ UNCHANGED <<hostVars, exportVars, pipeVars, bootVars, playerHeight,
                 playerY, playerXZ, velocityY, shadow, lastFrame>>

\* lines 178-185: the user lets a key go
keyup(code) ==
  /\ pc = "running"
  /\ code \in keysHeld
  /\ keysHeld' = keysHeld \ {code}
  /\ keysDown' = keysDown \ FlagsOf(code)
  /\ UNCHANGED <<hostVars, exportVars, pipeVars, bootVars, playerHeight,
                 playerY, playerXZ, velocityY, shadow, lastFrame>>

KeyDown == \E code \in KeyCodes : keydown(code)

KeyUp == \E code \in KeyCodes : keyup(code)

\* the scene calls renderer.render(s, c) with the override of lines 194-260
\* in place. Sideways the avatar is at the origin or away from it. lastFrame
\* holds what the last call of the function now in renderer.render did, and
\* is empty while that function has not been called.
Render ==
  /\ renderPatched
  /\ \E args \in RenderArgs, delta \in Deltas, ground \in GroundProbes :
       LET sim == Simulate(playerY, velocityY, keysDown, playerHeight, delta,
                           ground)
           xz == IF sim.respawned THEN "origin"
                 ELSE IF Moves(keysDown, sim.dt) THEN "away"
                 ELSE playerXZ
       IN  /\ playerY' = sim.y
           /\ velocityY' = sim.vy
           /\ playerXZ' = xz
           /\ shadow' = IF ground > FallLimit
                          THEN [visible |-> TRUE, y |-> ground + 1]
                          ELSE [shadow EXCEPT !.visible = FALSE]
           /\ lastFrame' =
                <<[args |-> args,
                   sim |-> sim,
                   follow |-> IF locals["controls"] = "object"
                                THEN "controls.target" ELSE "camera.lookAt",
                   delegated |-> Delegated(args[1], args[2], sim.y, xz)]>>
  /\ UNCHANGED <<hostVars, exportVars, pipeVars, bootVars, playerHeight,
                 keysDown, keysHeld>>

\* the scene calls renderer.render(s, c) and the renderer has its own render
RenderPlain ==
  /\ ~renderPatched
  /\ \E args \in RenderArgs :
       lastFrame' = <<[args |-> args, delegated |-> <<>>]>>
  /\ UNCHANGED <<hostVars, exportVars, pipeVars, bootVars, playerHeight,
                 playerY, playerXZ, velocityY, keysDown, shadow, keysHeld>>

\* poll has just returned true in a scene with or without camera and controls
InitFrame ==
  /\ input = "" /\ doc = "" /\ prev = "" /\ ops = <<>> /\ zf = DefaultZoom
  /\ bindings \in ExportScenes
  /\ \A n \in Required : bindings[n] = "object"
  /\ locals = [n \in NameSet |->
                 IF bindings[n] = "object" THEN "object" ELSE "null"]
  /\ pollI = 0
  /\ pc = "found"
  /\ listener = FALSE
  /\ avatar = FALSE
  /\ renderPatched = FALSE
  /\ warned = FALSE
  /\ seenDefined = TRUE
  /\ NothingRuns

NextFrame == Setup \/ KeyDown \/ KeyUp \/ Render \/ RenderPlain

SpecFrame == InitFrame /\ [][NextFrame]_vars

\* the keyboard of the controller, with every key
PressKey == \E code \in AllKeyCodes : keydown(code)

ReleaseKey == \E code \in AllKeyCodes : keyup(code)

NextKeys == Setup \/ PressKey \/ ReleaseKey

SpecKeys == InitFrame /\ [][NextKeys]_vars

(***************************************************************************)
(* State machine: the App component of the host page                       *)
(***************************************************************************)
\* useState<T | null>: <<>> is null, <<v>> the value v
Null == <<>>

Some(v) == <<v>>

\* const isLoading = status !== 'idle' && status !== 'error'
isLoading == status \notin {"idle", "error"}

ALLOWED_MIME_TYPES ==
  {"image/png", "image/jpeg", "image/webp", "image/heic", "image/heif"}

\* the types of the files a user drops
FileTypes == {"image/png", "text/html"}

\* what a user types into the prompt field
Prompts == {"", "a castle"}

\* the text of an example file, and the replies of the model
ExampleFiles ==
  {"<!DOCTYPE html><html><head></head><body><script>"
     \o "camera.position.set(10, -5, 2.5);</script></body></html>\n"}

ModelReplies ==
  {ChatReply,
   "<html><body><script>camera.position.set(2,2,2);</script></body></html>",
   "<html><head></head><body><script>camera.position.set(2,2,2);</script>"
     \o "</body></html>"}

\* the images the page holds: of the example tile, read from a dropped file,
\* returned by generateImage
Images == {"example1.png", "upload.png", "generated.png"}

\* the reply of the model to each image: a scene of its own for every image
ReplyTo ==
  [image \in Images |->
     CASE image = "upload.png" -> ChatReply
       [] image = "generated.png" ->
            "<html><body><script>camera.position.set(2,2,2);</script></body>"
              \o "</html>"
       [] OTHER ->
            "<html><head></head><body><script>camera.position.set(2,2,2);"
              \o "</script></body></html>"]

\* services/gemini.ts, generateVoxelScene: the reply of the model, fed to the
\* Document Extractor
generateVoxelScene(reply) == extractHtmlFromText(reply)

\* line 247
ExampleDocument(rawText) ==
  zoomCamera(hideBodyText(extractHtmlFromText(rawText)), DefaultZoom)

\* lines 249 and 252, with example.html = /examples/example1.html
NotFoundPage ==
  "<html><body><p>/examples/example1.html not found.</p></body></html>"

ErrorPage == "<html><body>Error loading example scene.</body></html>"

\* a Voxelize handler that leaves the camera where it is
VoxelizeDocument_noZoom(codeRaw) == injectGameMode(hideBodyText(codeRaw))

\* line 324
VoxelizeDocument(codeRaw) ==
  injectGameMode(zoomCamera(hideBodyText(codeRaw), DefaultZoom))

\* the scenes of the example files and of the replies, computed once
ExampleScene == [r \in ExampleFiles |-> injectGameMode(ExampleDocument(r))]

GeneratedScene ==
  [r \in ModelReplies |-> VoxelizeDocument(generateVoxelScene(r))]

\* the requests that are outstanding, with and without one of them
With(req) == pending (+) SetToBag({req})

Remove(req) == pending (-) SetToBag({req})

\* lines 129-134, as the tail of a handler that changes nothing else
handleError(msg, settled) ==
  /\ status' = "error"
  /\ errorMsg' = msg
  /\ pending' = pending (-) settled
  /\ UNCHANGED <<prompt, imageData, voxelCode, userContent, selectedTile,
                 showGenerator, isViewerVisible, viewMode>>

\* lines 220-229, up to the first await
handleExampleClick ==
  /\ ~isLoading
  /\ BagCardinality(pending) < MaxPending
  /\ selectedTile' = "0"
  /\ showGenerator' = FALSE
  /\ errorMsg' = ""
  /\ isViewerVisible' = TRUE
  /\ pending' = With([kind |-> "example", arg |-> "0"])
  /\ UNCHANGED <<status, prompt, imageData, voxelCode, userContent,
                 viewMode>>
  /\ UNCHANGED <<pipeVars, bootVars, exportVars, frameVars, soundVars>>

\* lines 230-262: the fetches of the image and of the scene file settle
ExampleSettles ==
  \E req \in BagToSet(pending) :
    /\ req.kind = "example"
    /\ \/ handleError("Failed to load example image", SetToBag({req}))
       \/ \E page \in [path : {"example"}, raw : ExampleFiles]
                        \cup [path : {"placeholder"},
                              raw : {NotFoundPage, ErrorPage}] :
            LET code == IF page.path = "example" THEN ExampleScene[page.raw]
                        ELSE injectGameMode(page.raw)
            IN  /\ imageData' = Some("example1.png")
                /\ voxelCode' = Some(code)
                /\ viewMode' = "voxel"
                /\ status' = "idle"
                /\ pending' = Remove(req)
                /\ UNCHANGED <<errorMsg, prompt, userContent, selectedTile,
                               showGenerator, isViewerVisible>>
    /\ UNCHANGED <<pipeVars, bootVars, exportVars, frameVars, soundVars>>

\* a tile switch that injects the controller into the scene it brings back
Restored_reinjected(voxel) ==
  IF voxel = Null THEN Null ELSE Some(injectGameMode(voxel[1]))

\* line 285: the scene of the user content, as it was stored
Restored(voxel) == voxel

\* lines 265-294
handleUserTileClick ==
  /\ ~isLoading
  /\ IF selectedTile = "user"
       THEN /\ showGenerator' = ~showGenerator
            /\ isViewerVisible' = showGenerator
            /\ selectedTile' = IF showGenerator /\ userContent = Null
                                 THEN "null" ELSE selectedTile
            /\ UNCHANGED <<imageData, voxelCode, prompt, viewMode>>
       ELSE /\ selectedTile' = "user"
            /\ showGenerator' = TRUE
            /\ isViewerVisible' = FALSE
            /\ IF userContent # Null
                 THEN /\ imageData' = Some(userContent[1].image)
                      /\ voxelCode' = Restored(userContent[1].voxel)
                      /\ prompt' = userContent[1].prompt
                      /\ viewMode' = IF userContent[1].voxel # Null
                                       THEN "voxel" ELSE "image"
                 ELSE /\ imageData' = Null
                      /\ voxelCode' = Null
                      /\ viewMode' = "image"
                      /\ UNCHANGED prompt
  /\ UNCHANGED <<status, errorMsg, userContent, pending>>
  /\ UNCHANGED <<pipeVars, bootVars, exportVars, frameVars, soundVars>>

\* lines 560-567: the prompt field of the generator panel
setPrompt ==
  /\ showGenerator
  /\ ~isLoading
  /\ \E text \in Prompts : text # prompt /\ prompt' = text
  /\ UNCHANGED <<status, errorMsg, imageData, voxelCode, userContent,
                 selectedTile, showGenerator, isViewerVisible, viewMode,
                 pending>>
  /\ UNCHANGED <<pipeVars, bootVars, exportVars, frameVars, soundVars>>

\* lines 136-149, up to the await; the button of lines 592-598
handleImageGenerate ==
  /\ showGenerator
  /\ ~isLoading
  /\ Trim(prompt) # ""
  /\ BagCardinality(pending) < MaxPending
  /\ status' = "generating_image"
  /\ errorMsg' = ""
  /\ imageData' = Null
  /\ voxelCode' = Null
  /\ viewMode' = "image"
  /\ isViewerVisible' = TRUE
  /\ pending' = With([kind |-> "generateImage", arg |-> prompt])
  /\ UNCHANGED <<prompt, userContent, selectedTile, showGenerator>>
  /\ UNCHANGED <<pipeVars, bootVars, exportVars, frameVars, soundVars>>

\* lines 149-164: generateImage settles
ImageSettles ==
  \E req \in BagToSet(pending) :
    /\ req.kind = "generateImage"
    /\ \/ handleError("generateImage failed", SetToBag({req}))
       \/ /\ userContent' = Some([image |-> "generated.png", voxel |-> Null,
                                  prompt |-> req.arg])
          /\ imageData' = Some("generated.png")
          /\ voxelCode' = Null
          /\ selectedTile' = "user"
          /\ status' = "idle"
          /\ showGenerator' = FALSE
          /\ pending' = Remove(req)
          /\ UNCHANGED <<errorMsg, prompt, isViewerVisible, viewMode>>
    /\ UNCHANGED <<pipeVars, bootVars, exportVars, frameVars, soundVars>>

\* lines 167-194 up to readAsDataURL, called by handleDrop and
\* handleFileUpload; the drop zone of lines 537-553
processFile ==
  /\ showGenerator
  /\ \E type \in FileTypes :
       IF type \notin ALLOWED_MIME_TYPES
         THEN handleError("Invalid file type", EmptyBag)
         ELSE /\ BagCardinality(pending) < MaxPending
              /\ pending' = With([kind |-> "readFile", arg |-> type])
              /\ UNCHANGED <<status, errorMsg, prompt, imageData, voxelCode,
                             userContent, selectedTile, showGenerator,
                             isViewerVisible, viewMode>>
  /\ UNCHANGED <<pipeVars, bootVars, exportVars, frameVars, soundVars>>

\* lines 174-192: reader.onload or reader.onerror
ReadSettles ==
  \E req \in BagToSet(pending) :
    /\ req.kind = "readFile"
    /\ \/ handleError("Failed to read file", SetToBag({req}))
       \/ /\ userContent' = Some([image |-> "upload.png", voxel |-> Null,
                                  prompt |-> ""])
          /\ imageData' = Some("upload.png")
          /\ voxelCode' = Null
          /\ viewMode' = "image"
          /\ status' = "idle"
          /\ errorMsg' = ""
          /\ selectedTile' = "user"
          /\ showGenerator' = FALSE
          /\ isViewerVisible' = TRUE
          /\ pending' = Remove(req)
          /\ UNCHANGED prompt
    /\ UNCHANGED <<pipeVars, bootVars, exportVars, frameVars, soundVars>>

\* lines 296-308, up to the await; the button of lines 743-751
handleVoxelize ==
  /\ isViewerVisible
  /\ imageData # Null
  /\ ~isLoading
  /\ BagCardinality(pending) < MaxPending
  /\ status' = "generating_voxels"
  /\ errorMsg' = ""
  /\ isViewerVisible' = TRUE
  /\ pending' = With([kind |-> "generateVoxelScene", arg |-> imageData[1],
                      tile |-> selectedTile])
  /\ UNCHANGED <<prompt, imageData, voxelCode, userContent, selectedTile,
                 showGenerator, viewMode>>
  /\ UNCHANGED <<pipeVars, bootVars, exportVars, frameVars, soundVars>>

\* lines 308-336: generateVoxelScene settles, with the reply to the image it
\* was called with; selectedTile is the one of the render that was clicked
VoxelSettles ==
  \E req \in BagToSet(pending) :
    /\ req.kind = "generateVoxelScene"
    /\ \/ handleError("generateVoxelScene failed", SetToBag({req}))
       \/ \E reply \in {ReplyTo[req.arg]} :
            LET code == GeneratedScene[reply]
            IN  /\ voxelCode' = Some(code)
                /\ userContent' =
                     IF req.tile = "user" /\ userContent # Null
                       THEN Some([userContent[1] EXCEPT !.voxel = Some(code)])
                       ELSE userContent
                /\ viewMode' = "voxel"
                /\ status' = "idle"
                /\ pending' = Remove(req)
                /\ UNCHANGED <<errorMsg, prompt, imageData, selectedTile,
                               showGenerator, isViewerVisible>>
    /\ UNCHANGED <<pipeVars, bootVars, exportVars, frameVars, soundVars>>

\* lines 687-705: the button that switches between image and scene
toggleViewMode ==
  /\ isViewerVisible
  /\ imageData # Null
  /\ voxelCode # Null
  /\ ~isLoading
  /\ viewMode' = IF viewMode = "image" THEN "voxel" ELSE "image"
  /\ UNCHANGED <<status, errorMsg, prompt, imageData, voxelCode, userContent,
                 selectedTile, showGenerator, isViewerVisible, pending>>
  /\ UNCHANGED <<pipeVars, bootVars, exportVars, frameVars, soundVars>>

InitHost == InitOn({""})

NextHost ==
  \/ handleExampleClick
  \/ ExampleSettles
  \/ handleUserTileClick
  \/ setPrompt
  \/ handleImageGenerate
  \/ ImageSettles
  \/ processFile
  \/ ReadSettles
  \/ handleVoxelize
  \/ VoxelSettles
  \/ toggleViewMode

SpecHost == InitHost /\ [][NextHost]_vars

(***************************************************************************)
(* State machine: the sound service and the effects of App that drive it   *)
(***************************************************************************)
AppStatus == {"idle", "generating_image", "generating_voxels", "error"}

\* sounds.ts lines 94-121: the values of processingNode and modulators after
\* startProcessing()
startProcessing(muted, node, mods) ==
  IF muted \/ node THEN [node |-> node, mods |-> mods]
  ELSE [node |-> TRUE, mods |-> mods + 1]

\* sounds.ts lines 123-133: the values of processingNode and stopping after
\* stopProcessing(); the oscillator stops a tenth of a second later
stopProcessing(node, stops) ==
  IF node THEN [node |-> FALSE, stops |-> stops + 1]
  ELSE [node |-> node, stops |-> stops]

\* a status handler sets a new status and the effect of lines 90-96 runs
setStatus ==
  \E s \in AppStatus \ {status} :
    /\ status' = s
    /\ IF s \in {"generating_voxels", "generating_image"}
         THEN LET after == startProcessing(isMuted, processingNode,
                                           modulators)
              IN  /\ after.mods <= MaxHums
                  /\ processingNode' = after.node
                  /\ modulators' = after.mods
                  /\ UNCHANGED stopping
         ELSE LET after == stopProcessing(processingNode, stopping)
              IN  /\ processingNode' = after.node
                  /\ stopping' = after.stops
                  /\ UNCHANGED modulators
    /\ UNCHANGED <<errorMsg, prompt, imageData, voxelCode, userContent,
                   selectedTile, showGenerator, isViewerVisible, viewMode,
                   pending, isMuted>>
    /\ UNCHANGED <<pipeVars, bootVars, exportVars, frameVars>>

\* line 441: the mute button, and the effect of lines 86-88 with setMute of
\* sounds.ts lines 22-27
setIsMuted ==
  /\ isMuted' = ~isMuted
  /\ LET after == IF isMuted' /\ processingNode
                    THEN stopProcessing(processingNode, stopping)
                    ELSE [node |-> processingNode, stops |-> stopping]
     IN  /\ processingNode' = after.node
         /\ stopping' = after.stops
  /\ UNCHANGED <<status, errorMsg, prompt, imageData, voxelCode, userContent,
                 selectedTile, showGenerator, isViewerVisible, viewMode,
                 pending, modulators>>
  /\ UNCHANGED <<pipeVars, bootVars, exportVars, frameVars>>

\* sounds.ts line 130: the stop time of an oscillator comes
StopTimeComes ==
  /\ stopping > 0
  /\ stopping' = stopping - 1
  /\ UNCHANGED <<status, errorMsg, prompt, imageData, voxelCode, userContent,
                 selectedTile, showGenerator, isViewerVisible, viewMode,
                 pending, isMuted, processingNode, modulators>>
  /\ UNCHANGED <<pipeVars, bootVars, exportVars, frameVars>>

InitSound == InitOn({""})

NextSound == setStatus \/ setIsMuted \/ StopTimeComes

SpecSound == InitSound /\ [][NextSound]_vars

(***************************************************************************)
(* Properties of extractHtmlFromText                                       *)
(***************************************************************************)
OpenMarkers == {"<!DOCTYPE html>", "<html"}

\* positions of s where an opening marker stands that has a closing </html>
\* somewhere after it
SpanStarts(s) ==
  {i \in 1..Len(s) : \E m \in OpenMarkers :
     /\ MatchesAt(s, i, m, TRUE)
     /\ \E j \in (i + Len(m))..Len(s) : MatchesAt(s, j, "</html>", TRUE)}

\* s holds an opening fence and a closing fence after it
HasFence(s) ==
  \E i \in 1..Len(s) : \E j \in (i + 3)..Len(s) :
    MatchesAt(s, i, Fence, FALSE) /\ MatchesAt(s, j, Fence, FALSE)

\* the text between the first opening fence (and the html tag right after it,
\* if any) and the first closing fence that follows
FenceInterior(s) ==
  LET i == Min({p \in 1..Len(s) : /\ MatchesAt(s, p, Fence, FALSE)
                                  /\ \E q \in (p + 3)..Len(s) :
                                       MatchesAt(s, q, Fence, FALSE)})
      a == IF MatchesAt(s, i + 3, "html", FALSE) THEN i + 7 ELSE i + 3
      j == Min({q \in a..Len(s) : MatchesAt(s, q, Fence, FALSE)})
  IN  SubSeq(s, a, j - 1)

\* t is s without its leading and its trailing spaces
IsTrimOf(t, s) ==
  /\ t = "" \/ (~IsSpace(Char(t, 1)) /\ ~IsSpace(Char(t, Len(t))))
  /\ \E i \in 1..(Len(s) + 1) :
       /\ i + Len(t) - 1 <= Len(s)
       /\ SubSeq(s, i, i + Len(t) - 1) = t
       /\ \A k \in 1..(i - 1) : IsSpace(Char(s, k))
       /\ \A k \in (i + Len(t))..Len(s) : IsSpace(Char(s, k))

Extracted == ops = <<"extract">>

\* C1: when the text holds an opening marker (<!DOCTYPE html> or <html, any
\* case) with a </html> after it, extractHtmlFromText returns the characters
\* of the text from the leftmost such marker through the first </html> after
\* it, unchanged, and nothing else.
Thm_C1_HtmlSpan ==
  (Extracted /\ SpanStarts(prev) # {}) =>
    LET i == Min(SpanStarts(prev))
        j == Min({q \in (i + 1)..Len(prev) : MatchesAt(prev, q, "</html>", TRUE)})
    IN  doc = SubSeq(prev, i, j + 6)

\* prose before the span, a second closing tag after it, upper case kept
Wit_C1_HtmlSpan ==
  /\ Extracted
  /\ prev = "x<HTML lang>" \o "</HTML>" \o "</html>"
  /\ doc = "<HTML lang></HTML>"

\* C2: the fence rule applies only when there is no HTML-document span: then
\* the result is the trimmed interior of the first fenced block, without the
\* fences and the html tag; when a span exists the result is the span, which
\* starts with the opening marker and ends with </html>, fenced or not.
Thm_C2_FenceOnlyWithoutSpan ==
  Extracted =>
    /\ (SpanStarts(prev) = {} /\ HasFence(prev)) =>
          IsTrimOf(doc, FenceInterior(prev))
    /\ SpanStarts(prev) # {} =>
          /\ \E m \in OpenMarkers : MatchesAt(doc, 1, m, TRUE)
          /\ MatchesAt(doc, Len(doc) - 6, "</html>", TRUE)
          /\ IndexOf(doc, "</html>", 1, TRUE) = Len(doc) - 6

\* a fenced block tagged html whose interior is returned trimmed
Wit_C2_FenceInterior ==
  /\ Extracted
  /\ prev = Fence \o "html \n" \o "x " \o Fence
  /\ doc = "x"

\* a span inside a fence: the span is returned, not the fence interior
Wit_C2_SpanInsideFence ==
  /\ Extracted
  /\ prev = FencedProse
  /\ HasFence(prev)
  /\ Trim(FenceInterior(prev)) = "Here it is: <html><body></body></HTML> enjoy"
  /\ doc = "<html><body></body></HTML>"

\* C3: a text with neither an HTML-document span nor a complete fence comes
\* back with its leading and trailing spaces removed; the empty text comes
\* back empty.
Thm_C3_FallbackTrim ==
  Extracted =>
    /\ (SpanStarts(prev) = {} /\ ~HasFence(prev)) => IsTrimOf(doc, prev)
    /\ prev = "" => doc = ""

\* an unclosed marker and an unclosed fence between spaces
Wit_C3_FallbackTrim ==
  /\ Extracted
  /\ prev = " \n" \o Fence \o "x "
  /\ doc = Fence \o "x"

(***************************************************************************)
(* Properties of hideBodyText and injectGameMode                           *)
(***************************************************************************)
LastOp == IF ops = <<>> THEN "none" ELSE ops[Len(ops)]

\* number of times op has been applied
Applied(op) == Cardinality({k \in 1..Len(ops) : ops[k] = op})

\* positions at which the text pat stands in s
Copies(s, pat) == {i \in 1..Len(s) : MatchesAt(s, i, pat, FALSE)}

\* s and t are equal up to the letter case of the n characters at position p
SameButCaseAt(s, t, p, n) ==
  /\ Len(s) = Len(t)
  /\ \A k \in 1..Len(s) :
       \/ Char(s, k) = Char(t, k)
       \/ /\ k \in p..(p + n - 1)
          /\ ToLowerChar(Char(s, k)) = ToLowerChar(Char(t, k))

\* where the precedence rule puts the CSS block in s
CssPoint(s) ==
  LET heads == {i \in 1..Len(s) : MatchesAt(s, i, "</head>", TRUE)}
      bodies == {i \in 1..Len(s) : MatchesAt(s, i, "</body>", TRUE)}
  IN  IF heads # {} THEN Min(heads)
      ELSE IF bodies # {} THEN Min(bodies)
      ELSE Len(s) + 1

\* C4: hideBodyText puts one copy of the CSS block right before the first
\* </head> (any case) if there is one, else right before the first </body>,
\* else at the end; the text before that point is kept, the closing tag
\* follows the block, and the output is as long as the input plus the block.
Thm_C4_CssPlacement ==
  LastOp = "hide" =>
    LET p == CssPoint(prev)
        n == Len(cssToInject)
    IN  /\ Len(doc) = Len(prev) + n
        /\ SubSeq(doc, 1, p - 1) = SubSeq(prev, 1, p - 1)
        /\ SubSeq(doc, p, p + n - 1) = cssToInject
        /\ SameButCaseAt(SubSeq(doc, p + n, Len(doc)),
                         SubSeq(prev, p, Len(prev)), 1, 7)
        /\ Cardinality(Copies(doc, cssToInject))
             = Cardinality(Copies(prev, cssToInject)) + 1

\* a </body> stands before the first </head>: the block goes to the </head>
Wit_C4_HeadBeforeBody ==
  /\ ops = <<"hide">>
  /\ prev = "</Body></HEAD>" \o "</head>"
  /\ doc = "</Body>" \o cssToInject \o "</head>" \o "</head>"

\* no </head>: the block goes to the first </body>
Wit_C4_BodyOnly ==
  /\ ops = <<"hide">>
  /\ prev = "</Body>" \o "</Body>"
  /\ doc = cssToInject \o "</body>" \o "</Body>"

\* neither tag: the block goes to the end
Wit_C4_Appended ==
  /\ ops = <<"hide">>
  /\ prev = "<script>b();" \o "a();</script>"
  /\ doc = prev \o cssToInject

\* C7: when the document holds a </script>, injectGameMode splices the
\* template right before the last one: the text before that tag (every
\* earlier script element included) and the text after it are kept, and the
\* tag that follows the template is the last </script> of the output. When
\* the document holds no </script>, a <script type="module"> element with
\* the template is appended.
Thm_C7_TemplatePlacement ==
  LastOp = "inject" =>
    LET tags == {i \in 1..Len(prev) : MatchesAt(prev, i, "</script>", TRUE)}
        n == Len(gameScript)
    IN  IF tags = {}
          THEN doc = prev \o "<script type=\"module\">" \o gameScript
                          \o "</script>"
          ELSE LET p == Max(tags)
               IN  /\ SubSeq(doc, 1, p - 1) = SubSeq(prev, 1, p - 1)
                   /\ SubSeq(doc, p, p + n + 1) = "\n" \o gameScript \o "\n"
                   /\ MatchesAt(doc, p + n + 2, "</script>", TRUE)
                   /\ LastIndexOf(doc, "</script>", TRUE) = p + n + 2
                   /\ SubSeq(doc, p + n + 11, Len(doc))
                        = SubSeq(prev, p + 9, Len(prev))

\* two script elements: the template goes into the second, the first is kept
Wit_C7_LastOfTwo ==
  /\ ops = <<"inject">>
  /\ prev = "a();</script>" \o "<script>b();</SCRIPT>"
  /\ doc = "a();</script>" \o "<script>b();" \o "\n" \o gameScript
              \o "\n</script>"

\* no closing script tag: a module script element is appended
Wit_C7_NoScript ==
  /\ ops = <<"inject">>
  /\ prev = "</head>" \o "</Body>"
  /\ MatchesAt(doc, Len(prev) + 1, "<script type=\"module\">", FALSE)
  /\ Len(doc) = Len(prev) + 22 + Len(gameScript) + 9

\* s with every occurrence of pat taken out, leftmost first
RECURSIVE Without(_, _)
Without(s, pat) ==
  LET i == IndexOf(s, pat, 1, FALSE)
  IN  IF i = 0 THEN s
      ELSE Without(SubSeq(s, 1, i - 1) \o SubSeq(s, i + Len(pat), Len(s)), pat)

\* C9: neither stage deduplicates. After any sequence of applications the
\* document holds as many CSS blocks as hideBodyText was applied and as many
\* templates as injectGameMode was applied, all templates inside the last
\* script element; taking out the CSS blocks, the spliced templates (with
\* their line breaks) and the appended script element gives the input back,
\* up to the letter case of closing tags.
Thm_C9_NoDeduplication ==
  LET css == Copies(doc, cssToInject)
      tpl == Copies(doc, gameScript)
      bare == Without(Without(Without(doc, cssToInject),
                "\n" \o gameScript \o "\n"),
                "<script type=\"module\">" \o gameScript \o "</script>")
  IN  /\ Cardinality(css) = Applied("hide")
      /\ Cardinality(tpl) = Applied("inject")
      /\ tpl # {} => IndexOf(doc, "</script>", Min(tpl), TRUE)
                        = LastIndexOf(doc, "</script>", TRUE)
      /\ SameButCaseAt(bare, input, 1, Len(input))

\* each stage applied to its own output: two blocks, then three
Wit_C9_HideTwice ==
  /\ ops = <<"hide", "hide">>
  /\ input = "</Body></HEAD>" \o "</Body>"
  /\ doc = "</Body>" \o cssToInject \o cssToInject \o "</head>" \o "</Body>"

Wit_C9_InjectTwice ==
  /\ ops = <<"inject", "inject">>
  /\ input = "<script>b();</SCRIPT>"
  /\ doc = "<script>b();" \o "\n" \o gameScript \o "\n"
              \o "\n" \o gameScript \o "\n</script>"

\* s with the text at positions i .. i + n - 1 taken out
Cut(s, i, n) == SubSeq(s, 1, i - 1) \o SubSeq(s, i + n, Len(s))

\* what a stage inserts: the CSS block, the template between two line
\* breaks, the appended script element
InsertedBlocks(op) ==
  IF op = "hide" THEN {cssToInject}
  ELSE {"\n" \o gameScript \o "\n",
        "<script type=\"module\">" \o gameScript \o "</script>"}

\* C24: hideBodyText and injectGameMode only insert text: taking the
\* inserted block out of the output gives the input back character for
\* character, the letter case of the closing tag next to it included.
Orig_C24_OnlyInserts ==
  LastOp \in {"hide", "inject"} =>
    \E b \in InsertedBlocks(LastOp) :
      \E i \in Copies(doc, b) : Cut(doc, i, Len(b)) = prev

(***************************************************************************)
(* Properties of zoomCamera                                                *)
(***************************************************************************)
\* a signed decimal literal: an optional minus sign in front, digits with at
\* most one decimal point among them, a digit at the end
IsLiteral(t) ==
  /\ t # ""
  /\ \A k \in 1..Len(t) : \/ Char(t, k) \in Digits
                          \/ Char(t, k) = "." /\ k < Len(t)
                          \/ Char(t, k) = "-" /\ k = 1
  /\ Cardinality({k \in 1..Len(t) : Char(t, k) = "."}) <= 1

\* the arguments of the call text that opens at position i of s: the text
\* between the parentheses cut at its commas, each piece trimmed
ArgsAt(s, i) ==
  LET e == IndexOf(s, ")", i + 20, FALSE)
      inner == SubSeq(s, i + 20, e - 1)
      commas == {k \in 1..Len(inner) : Char(inner, k) = ","}
      cut == <<0>> \o [n \in 1..Cardinality(commas) |->
                        CHOOSE k \in commas :
                          Cardinality({j \in commas : j < k}) = n - 1]
                  \o <<Len(inner) + 1>>
  IN  [n \in 1..(Len(cut) - 1) |->
         Trim(SubSeq(inner, cut[n] + 1, cut[n + 1] - 1))]

\* the text camera.position.set( ... ) with three literals stands at i
IsCallAt(s, i) ==
  /\ MatchesAt(s, i, "camera.position.set(", FALSE)
  /\ IndexOf(s, ")", i + 20, FALSE) > 0
  /\ Len(ArgsAt(s, i)) = 3
  /\ \A n \in 1..3 : IsLiteral(ArgsAt(s, i)[n])

CallsOf(s) == {i \in 1..Len(s) : IsCallAt(s, i)}

CallEnd(s, i) == IndexOf(s, ")", i + 20, FALSE)

\* the n-th element of a set of positions
Nth(S, n) == CHOOSE i \in S : Cardinality({j \in S : j < i}) = n - 1

\* the numeral t is worth the number x
WorthOf(t, x) == parseFloat(t)[1] * Pow10(x[2]) = x[1] * Pow10(parseFloat(t)[2])

\* the form in which a number is printed: no sign on zero, no leading zero
\* but the one before the point, no trailing zero after the point
IsPrinted(t) ==
  LET u == IF Char(t, 1) = "-" THEN Tail(t) ELSE t
  IN  /\ IsLiteral(t)
      /\ Char(u, 1) \in Digits
      /\ Len(u) > 1 /\ Char(u, 1) = "0" => Char(u, 2) = "."
      /\ (\E k \in 1..Len(u) : Char(u, k) = ".") => Char(u, Len(u)) # "0"
      /\ WorthOf(t, <<0, 0>>) => t = "0"

Zoomed == LastOp = "zoom"

\* C5: zoomCamera rewrites every camera.position.set(a, b, c) with three
\* literals, not only the first: the n-th such call of the output is
\* camera.position.set(x, y, z) with x, y, z the printed products of the
\* n-th call's a, b, c and the factor; with the factor 0.5,
\* camera.position.set(10, -5, 2.5) becomes camera.position.set(5, -2.5, 1.25).
Thm_C5_EveryCallScaled ==
  Zoomed =>
    /\ Cardinality(CallsOf(doc)) = Cardinality(CallsOf(prev))
    /\ \A n \in 1..Cardinality(CallsOf(prev)) :
         LET i == Nth(CallsOf(prev), n)
             j == Nth(CallsOf(doc), n)
             a == ArgsAt(prev, i)
             x == ArgsAt(doc, j)
         IN  /\ SubSeq(doc, j, CallEnd(doc, j))
                  = "camera.position.set(" \o x[1] \o ", " \o x[2] \o ", "
                      \o x[3] \o ")"
             /\ \A k \in 1..3 : /\ IsPrinted(x[k])
                                /\ WorthOf(x[k], Times(parseFloat(a[k]), zf))
    /\ (prev = "camera.position.set(10, -5, 2.5)" /\ zf = <<5, 1>>)
         => doc = "camera.position.set(5, -2.5, 1.25)"

\* two calls in one script, both rewritten with the default factor
Wit_C5_EveryCallScaled ==
  /\ Zoomed
  /\ zf = DefaultZoom
  /\ prev = "camera.position.set(10, -5, 2.5);"
              \o "camera.position.set( .50 ,\n-0 ,\n004 );"
  /\ doc = "camera.position.set(8, -4, 2);camera.position.set(0.4, 0, 3.2);"

\* s with each call text replaced by the mark @
RECURSIVE Skeleton(_, _, _)
Skeleton(s, from, calls) ==
  LET rest == {i \in calls : i >= from}
  IN  IF rest = {} THEN SubSeq(s, from, Len(s))
      ELSE SubSeq(s, from, Min(rest) - 1) \o "@"
             \o Skeleton(s, CallEnd(s, Min(rest)) + 1, calls)

IsIdentChar(c) ==
  \/ c \in Digits \cup {"_", "$"}
  \/ ToLowerChar(c) \in {"a", "b", "c", "d", "e", "f", "g", "h", "i", "j", "k",
                          "l", "m", "n", "o", "p", "q", "r", "s", "t", "u", "v",
                          "w", "x", "y", "z"}

\* the calls of s whose identifier is camera itself, not a longer name
CallsOnCamera(s) ==
  {i \in CallsOf(s) : i = 1 \/ ~IsIdentChar(Char(s, i - 1))}

\* C6 as stated: a script without a three-literal camera.position.set call on
\* the identifier camera (wrong number of arguments, other argument
\* expressions, other identifiers or methods only) comes back unchanged.
Orig_C6_OtherIdentifierUnchanged ==
  (Zoomed /\ CallsOnCamera(prev) = {}) => doc = prev

\* C6, amended: zoomCamera changes nothing outside the texts
\* camera.position.set(a, b, c) with three literals: a script that holds no
\* such text comes back unchanged, and the text before, between and after
\* such texts is kept. The text counts wherever it stands, also at the end of
\* a longer identifier.
Thm_C6_OnlyCallTextsChange ==
  Zoomed =>
    /\ CallsOf(prev) = {} => doc = prev
    /\ Skeleton(doc, 1, CallsOf(doc)) = Skeleton(prev, 1, CallsOf(prev))

\* a call with two arguments is kept, the call after it is rewritten
Wit_C6_OnlyCallTextsChange ==
  /\ Zoomed
  /\ zf = DefaultZoom
  /\ prev = "camera.position.set(1,2);" \o "camera.position.set(2,2,2);"
  /\ doc = "camera.position.set(1,2);" \o "camera.position.set(1.6, 1.6, 1.6);"

(***************************************************************************)
(* Properties of the chain                                                 *)
(***************************************************************************)
\* C8: the four stages, applied in order with the factor 0.8 to the chat
\* reply that wraps <html><head></head><body><script>camera.position.set(
\* 2,2,2);</script></body></html> in prose and an html fence, give a document
\* with the CSS block inside the head, the camera call reading
\* camera.position.set(1.6, 1.6, 1.6), and one script element that holds the
\* camera call and then the template.
Thm_C8_EndToEnd ==
  (ops = <<"extract", "hide", "zoom", "inject">> /\ input = ChatReply
     /\ zf = DefaultZoom) =>
    /\ doc = "<html><head>" \o cssToInject \o "</head><body><script>"
               \o "camera.position.set(1.6, 1.6, 1.6);"
               \o "\n" \o gameScript \o "\n"
               \o "</script></body></html>"
    /\ IndexOf(doc, "<head>", 1, FALSE) < IndexOf(doc, cssToInject, 1, FALSE)
    /\ IndexOf(doc, cssToInject, 1, FALSE) < IndexOf(doc, "</head>", 1, FALSE)
    /\ Cardinality(Copies(doc, "<script")) = 1
    /\ Cardinality(Copies(doc, "</script>")) = 1
    /\ IndexOf(doc, "<script>", 1, FALSE)
         < IndexOf(doc, "camera.position.set(1.6, 1.6, 1.6)", 1, FALSE)
    /\ IndexOf(doc, "camera.position.set(1.6, 1.6, 1.6)", 1, FALSE)
         < IndexOf(doc, gameScript, 1, FALSE)
    /\ IndexOf(doc, gameScript, 1, FALSE) < IndexOf(doc, "</script>", 1, FALSE)

\* the chat reply has gone through the four stages
Wit_C8_EndToEnd ==
  /\ ops = <<"extract", "hide", "zoom", "inject">>
  /\ input = ChatReply
  /\ zf = DefaultZoom
  /\ Cardinality(Copies(doc, gameScript)) = 1
  /\ Cardinality(Copies(doc, cssToInject)) = 1

(***************************************************************************)
(* Properties of the injected script                                       *)
(***************************************************************************)
\* C10: when no pass of poll finds THREE, scene and renderer all defined, the
\* bootstrap warns, aborts and installs nothing, then and ever after: no
\* message listener, no avatar or shadow, renderer.render untouched. The
\* listener and the render override are installed only after a pass has seen
\* the three variables defined.
Thm_C10_AbortInstallsNothing ==
  /\ pc = "aborted" =>
       (warned /\ ~listener /\ ~avatar /\ ~renderPatched /\ pollI = PollLimit)
  /\ (pc \notin {"poll", "wait"} /\ ~seenDefined) => pc = "aborted"
  /\ (listener \/ avatar \/ renderPatched) =>
       (seenDefined /\ ~warned /\ \A n \in Required : locals[n] = "object")

\* the hundred passes are over, the variables never showed up
Wit_C10_AbortInstallsNothing ==
  /\ pc = "aborted"
  /\ pollI = PollLimit
  /\ ~seenDefined
  /\ bindings["scene"] # "object"

\* C11: poll terminates: it makes at most 100 passes, it returns true at the
\* first pass at which THREE, scene and renderer are all defined, and it
\* returns false after exactly 100 failed passes.
Orig_C11_FoundAtFirstDefinedPass ==
  /\ pollI <= PollLimit
  /\ pc = "aborted" => pollI = PollLimit
  /\ seenDefined => pc \in {"found", "running", "failed"}

\* C12: once poll has returned true the bootstrap runs to its end and installs
\* the message listener, the avatar with its shadow and the render override,
\* whether or not camera and controls were found.
Orig_C12_CameraOptional ==
  pc \in {"running", "failed"} => (listener /\ avatar /\ renderPatched)

(***************************************************************************)
(* Properties of the stages on malformed input                             *)
(***************************************************************************)
\* C15: each of the four stages can be applied to any text, however
\* malformed (unclosed tags, closing tags without opening ones, one fence,
\* broken camera calls, the empty text), and what it returns is a string,
\* never a thrown error.
Thm_C15_StagesReturnStrings ==
  /\ prev \in STRING
  /\ doc \in STRING
  /\ doc # TypeError
  /\ ops # <<>> => Head(ops) \in {"extract", "hide", "zoom", "inject"}

\* a text with an opening marker that is never closed and one fence went
\* through the extractor, which fell back to the trimmed text
Wit_C15_StagesReturnStrings ==
  /\ ops = <<"extract">>
  /\ input = "<html" \o Fence
  /\ doc = input

\* the injector on a text that only holds a closing script tag
Wit_C15_LoneClosingTag ==
  /\ ops = <<"inject">>
  /\ input = "</script>"
  /\ doc = "\n" \o gameScript \o "\n</script>"

(***************************************************************************)
(* Properties of the host page                                             *)
(***************************************************************************)
\* the four stages in their order, with the default factor, on the texts the
\* host page receives
FullChain ==
  [r \in ExampleFiles \cup ModelReplies |->
     injectGameMode(zoomCamera(hideBodyText(extractHtmlFromText(r)),
                               DefaultZoom))]

\* what each stage leaves in the outcome of the chain: no fence and no
\* prose, one CSS block, a scaled camera call and no unscaled one, one
\* template inside the script
ChainShows ==
  \A r \in ExampleFiles \cup ModelReplies :
    LET d == FullChain[r]
    IN  /\ IndexOf(d, Fence, 1, FALSE) = 0
        /\ HtmlOpenLenAt(d, 1) > 0
        /\ MatchesAt(d, Len(d) - 6, "</html>", TRUE)
        /\ Cardinality(Copies(d, cssToInject)) = 1
        /\ CallsOf(d) # {}
        /\ \A i \in CallsOf(d) :
             \/ MatchesAt(d, i, "camera.position.set(1.6, 1.6, 1.6)", FALSE)
             \/ MatchesAt(d, i, "camera.position.set(8, -4, 2)", FALSE)
        /\ Cardinality(Copies(d, gameScript)) = 1
        /\ Max(CallsOf(d)) < IndexOf(d, gameScript, 1, FALSE)
        /\ IndexOf(d, gameScript, 1, FALSE) < LastIndexOf(d, "</script>", TRUE)

\* C16: both display paths of the host page run the four stages in the order
\* extractor, visibility patcher, camera rescaler, controller injector: the
\* scene stored for display is the outcome of that chain on the text of the
\* example file, or on the reply of the model. (A page put in the place of an
\* example file that could not be loaded gets the controller only.)
Thm_C16_BothPathsFullChain ==
  /\ ChainShows
  /\ voxelCode # Null =>
       \/ \E r \in ExampleFiles \cup ModelReplies : voxelCode[1] = FullChain[r]
       \/ voxelCode[1] \in {injectGameMode(NotFoundPage),
                             injectGameMode(ErrorPage)}

\* the scene generated from the fenced chat reply is on display
Wit_C16_BothPathsFullChain ==
  /\ voxelCode = Some(FullChain[ChatReply])
  /\ viewMode = "voxel"
  /\ status = "idle"
  /\ imageData = Some("upload.png")
  /\ pending = EmptyBag

\* the scene of the example file is on display
Wit_C16_ExamplePath ==
  /\ \E r \in ExampleFiles : voxelCode = Some(FullChain[r])
  /\ imageData = Some("example1.png")
  /\ selectedTile = "0"
  /\ viewMode = "voxel"

\* the generation requests that are outstanding
InFlight ==
  [req \in {r \in BagToSet(pending) :
              r.kind \in {"generateImage", "generateVoxelScene"}}
     |-> pending[req]]

\* C20: at most one generation request is in flight, and while one is, the
\* status is generating_image or generating_voxels: no action the page offers
\* in that state starts a second request or sets the status back to idle.
Orig_C20_OneRequestInFlight ==
  /\ BagCardinality(InFlight) <= 1
  /\ InFlight # EmptyBag => isLoading

\* the scene generated from an image
SceneOf(image) == GeneratedScene[ReplyTo[image]]

\* C21: the stored user content is self-consistent: a scene held in
\* userContent.voxel is the scene generated from the image held in
\* userContent.image.
Orig_C21_UserSceneOfUserImage ==
  (userContent # Null /\ userContent[1].voxel # Null) =>
    userContent[1].voxel = Some(SceneOf(userContent[1].image))

\* the loads of example tiles that have not settled
ExampleLoads == {req \in BagToSet(pending) : req.kind = "example"}

\* C22: once every example load has settled, the image in the viewer is the
\* one of the selected tile: with the user tile selected it is not the image
\* of an example.
Orig_C22_ViewerShowsSelectedTile ==
  (ExampleLoads = {} /\ selectedTile = "user") =>
    imageData # Some("example1.png")

\* the documents with one copy of the controller template among those the
\* page can store
HostScenes ==
  {ExampleScene[r] : r \in ExampleFiles}
    \cup {GeneratedScene[r] : r \in ModelReplies}
    \cup {injectGameMode(NotFoundPage), injectGameMode(ErrorPage)}

InjectedOnce ==
  {d \in HostScenes : Cardinality(Copies(d, gameScript)) = 1}

\* C23: every scene the page holds, on display or in the user content, has
\* had the controller injected exactly once: it carries one copy of the
\* template, also after a tile switch has brought the user's scene back.
Thm_C23_InjectedExactlyOnce ==
  /\ voxelCode # Null => voxelCode[1] \in InjectedOnce
  /\ (userContent # Null /\ userContent[1].voxel # Null) =>
       userContent[1].voxel[1] \in InjectedOnce

\* the user's scene is back behind the generator panel after a tile switch
Wit_C23_InjectedExactlyOnce ==
  /\ selectedTile = "user"
  /\ showGenerator
  /\ ~isViewerVisible
  /\ userContent # Null
  /\ voxelCode # Null
  /\ voxelCode = userContent[1].voxel
  /\ viewMode = "voxel"
  /\ prompt = userContent[1].prompt

(***************************************************************************)
(* Properties of the export handler                                        *)
(***************************************************************************)
\* the messages that arrived with the listener registered and the exact
\* payload
Commands ==
  {i \in DOMAIN received :
     received[i].heard /\ received[i].data = <<"string", "EXPORT_GLB">>}

\* C13: once the listener is registered, the messages whose payload is exactly
\* the string EXPORT_GLB start one export attempt each, in their order, and
\* no other message starts one (not another string, not an array or object
\* that holds the string, not a message that came before the listener); the
\* Export GLB action of the host posts exactly this payload.
Thm_C13_ExactPayloadStartsExport ==
  /\ Len(attempts) = Cardinality(Commands)
  /\ \A i \in DOMAIN received :
       received[i].from = "host" =>
         received[i].data = <<"string", "EXPORT_GLB">>
  /\ attempts # <<>> => listener

\* the host's message started one attempt, an array that holds the same text
\* started none
Wit_C13_ExactPayloadStartsExport ==
  /\ pc = "running"
  /\ Len(received) = 2
  /\ received[1].from = "host" /\ received[1].heard
  /\ received[2].data = <<"array", "EXPORT_GLB">> /\ received[2].heard
  /\ Len(attempts) = 1

\* a message that came while poll was still waiting is lost
Wit_C13_BeforeListener ==
  /\ Len(received) = 2
  /\ received[1].from = "host" /\ ~received[1].heard
  /\ received[2].from = "host" /\ received[2].heard
  /\ Len(attempts) = 1

\* C14: an attempt imports the exporter from the package path first and from
\* the CDN only after that import was rejected. An attempt that fails (both
\* imports rejected, a module without GLTFExporter, an exporter that throws,
\* onError) logs an error, offers no download and leaves the listener, the
\* avatar and the render override as they were; a later EXPORT_GLB message
\* starts a new attempt.
Thm_C14_ExportFailureContained ==
  /\ \A k \in DOMAIN attempts :
       LET a == attempts[k]
       IN  /\ a.loads \in {<<PackagePath>>, <<PackagePath, CdnUrl>>}
           /\ Len(a.loads) = 2 => a.results[1] = "rejected"
           /\ (a.results # <<>> /\ a.results[1] # "rejected") =>
                Len(a.loads) = 1
           /\ a.stage = "failed" => (a.errors = 1 /\ a.file = "")
           /\ a.stage = "done" => (a.errors = 0 /\ a.file \in {".glb", ".gltf"})
           /\ a.stage \in {"import", "parsing"} => (a.errors = 0 /\ a.file = "")
  /\ Len(downloads)
       = Cardinality({k \in DOMAIN attempts : attempts[k].stage = "done"})
  /\ attempts # <<>> =>
       /\ listener
       /\ pc \in {"running", "failed"}
       /\ pc = "running" => (avatar /\ renderPatched)
  /\ (listener /\ Len(received) < MaxMsgs) => ENABLED handleExportGLB

\* both imports were rejected, nothing was downloaded, and the next message
\* started a second attempt
Wit_C14_ExportFailureContained ==
  /\ Len(attempts) = 2
  /\ attempts[1].stage = "failed"
  /\ attempts[1].loads = <<PackagePath, CdnUrl>>
  /\ attempts[1].results = <<"rejected", "rejected">>
  /\ attempts[2].stage = "import"
  /\ downloads = <<>>
  /\ pc = "running"

\* the package import was rejected and the CDN module exported the scene
Wit_C14_CdnFallback ==
  /\ Len(attempts) = 1
  /\ attempts[1].results = <<"rejected", "exporter">>
  /\ attempts[1].stage = "done"
  /\ downloads = <<".glb">>

(***************************************************************************)
(* Properties of the character controller                                  *)
(***************************************************************************)
\* the simulation record of the last call of the override
LastSim == lastFrame[1].sim

\* the override is in place and has been called
Simulated == renderPatched /\ lastFrame # <<>>

\* C17: with the override installed, a call of renderer.render has run the
\* simulation step before it delegates: the original render is called exactly
\* once, with the scene and camera the caller passed, and draws the avatar
\* where the step has left it; a running controller always has its override
\* installed.
Thm_C17_SimulateThenDelegateOnce ==
  /\ pc = "running" => renderPatched
  /\ Simulated =>
       lastFrame[1].delegated =
         <<[scene |-> lastFrame[1].args[1], camera |-> lastFrame[1].args[2],
            y |-> playerY, xz |-> playerXZ]>>

\* a call with the second camera in which the step has moved the avatar
Wit_C17_SimulateThenDelegateOnce ==
  /\ Simulated
  /\ lastFrame[1].args = <<"scene", "minimapCamera">>
  /\ LastSim.yBefore # playerY
  /\ playerXZ = "away"

\* the test of lines 229-230 on the values the last step went through
Landing ==
  /\ LastSim.feetPos <= LastSim.ground + 2
  /\ LastSim.vyGravity <= 0

\* C18: a frame is a landing frame when the feet are at most 0.1 above the
\* ground found and the velocity after gravity is not positive; in a landing
\* frame the avatar is put on the ground and its velocity becomes the jump
\* force if the jump key is held and zero if not; in every other frame the
\* landing test leaves height and velocity alone, jump key held or not.
Thm_C18_JumpOnlyWhenLanding ==
  Simulated =>
    /\ LastSim.feetPos = LastSim.yBefore - (playerHeight * Scale) \div 2
    /\ Landing =>
         /\ LastSim.yLanded = LastSim.ground + (playerHeight * Scale) \div 2
         /\ LastSim.vyLanded =
              IF LastSim.space THEN jumpForce(playerHeight) ELSE 0
    /\ ~Landing =>
         /\ LastSim.yLanded = LastSim.yBefore
         /\ LastSim.vyLanded = LastSim.vyGravity

\* a landing frame with the jump key held
Wit_C18_JumpOnlyWhenLanding ==
  /\ Simulated
  /\ Landing
  /\ LastSim.space
  /\ velocityY = jumpForce(playerHeight)

\* the jump key held in the air, and held while rising next to the ground
Wit_C18_HeldInTheAir ==
  /\ Simulated
  /\ LastSim.space
  /\ LastSim.ground = NoGround
  /\ velocityY < 0

Wit_C18_HeldWhileRising ==
  /\ Simulated
  /\ LastSim.space
  /\ LastSim.feetPos <= LastSim.ground + 2
  /\ LastSim.vyGravity > 0

\* C19: when a frame ends the avatar is not below -100: a step that has taken
\* it below puts it at the origin at ten times its height with no velocity,
\* and every other step leaves it where it has moved to.
Thm_C19_NeverBelowFallLimit ==
  /\ renderPatched => playerY >= FallLimit
  /\ Simulated =>
       /\ LastSim.respawned <=> LastSim.yMoved < FallLimit
       /\ LastSim.respawned =>
            /\ playerY = 10 * playerHeight * Scale
            /\ velocityY = 0
            /\ playerXZ = "origin"
       /\ ~LastSim.respawned => playerY = LastSim.yMoved

\* a respawn over a scene with no ground, and the fall that follows it
Wit_C19_NeverBelowFallLimit ==
  /\ Simulated
  /\ LastSim.respawned
  /\ LastSim.ground = NoGround
  /\ LastSim.yBefore < 0

Wit_C19_FallsAgain ==
  /\ Simulated
  /\ LastSim.ground = NoGround
  /\ LastSim.yBefore = 10 * playerHeight * Scale
  /\ playerY < LastSim.yBefore

\* the keys bound to a flag of the input object
BoundTo(flag) == {code \in AllKeyCodes : flag \in FlagsOf(code)}

\* C25: each flag of the input object is set exactly when one of the keys
\* bound to it is held down.
Orig_C25_FlagsFollowKeys ==
  pc = "running" =>
    \A flag \in {"f", "b", "l", "r", "space"} :
      flag \in keysDown <=> BoundTo(flag) \cap keysHeld # {}

(***************************************************************************)
(* Properties of the sound service                                         *)
(***************************************************************************)
\* the hum oscillators that sound: the one in processingNode and the ones
\* whose stop time has not come
Humming == (IF processingNode THEN 1 ELSE 0) + stopping

\* C26: the processing hum plays exactly when the status is generating_image
\* or generating_voxels and sound is not muted; at most one hum oscillator is
\* active, and none is held while muted.
Orig_C26_HumFollowsStatus ==
  /\ processingNode <=>
       (status \in {"generating_image", "generating_voxels"} /\ ~isMuted)
  /\ Humming <= 1
  /\ isMuted => ~processingNode

====
